---- MODULE Spec2Model ----
(***************************************************************************)
(* Model of the AI trading agent of cflank/nof1:                           *)
(*   - AIInstructionParser (services/ai-instruction-parser): the decoder   *)
(*     from the model's free text to TradingInstruction records;           *)
(*   - AITradingService (services/ai-trading-service): the orchestrator    *)
(*     with start(), stop(), the self-rescheduling trading loop and        *)
(*     executeAITradingCycle().                                            *)
(* Texts are TLA+ strings; a JavaScript number is an integer count of      *)
(* thousandths (1.5 is 1500); a missing field is Undef.  Timestamps,       *)
(* cycle ids and log lines are left out.                                   *)
(***************************************************************************)
EXTENDS Integers, Sequences, FiniteSets, Bags, TLC

\* ------------------------------------------------------------------------
\* Text primitives (JavaScript String methods used by the parser)
\* ------------------------------------------------------------------------
\* an optional value is a sequence of length at most one: Undef is JavaScript's
\* undefined (or NaN), Some(v) a present value
Undef == <<>>

Some(v) == <<v>>

Has(o) == o # <<>>

Val(o) == o[1]

Scale == 1000

LowerAlphabet == "abcdefghijklmnopqrstuvwxyz"

UpperAlphabet == "ABCDEFGHIJKLMNOPQRSTUVWXYZ"

Digits == "0123456789"

Min(S) == CHOOSE x \in S : \A y \in S : x <= y

CharAt(s, i) == SubSeq(s, i, i)

PosIn(alphabet, c) ==
    LET S == {k \in 1..Len(alphabet) : CharAt(alphabet, k) = c}
    IN  IF S = {} THEN 0 ELSE Min(S)

UpChar(c) ==
    LET k == PosIn(LowerAlphabet, c)
    IN  IF k = 0 THEN c ELSE CharAt(UpperAlphabet, k)

LowChar(c) ==
    LET k == PosIn(UpperAlphabet, c)
    IN  IF k = 0 THEN c ELSE CharAt(LowerAlphabet, k)

RECURSIVE toUpperCase(_)
toUpperCase(s) ==
    IF Len(s) = 0 THEN "" ELSE UpChar(CharAt(s, 1)) \o toUpperCase(SubSeq(s, 2, Len(s)))

RECURSIVE toLowerCase(_)
toLowerCase(s) ==
    IF Len(s) = 0 THEN "" ELSE LowChar(CharAt(s, 1)) \o toLowerCase(SubSeq(s, 2, Len(s)))

IsSpace(c) == c \in {" ", "\n", "\t", "\r"}

IsDigit(c) == PosIn(Digits, c) # 0

IsUpperLetter(c) == PosIn(UpperAlphabet, c) # 0

\* s.trim()
trim(s) ==
    LET N == {k \in 1..Len(s) : ~IsSpace(CharAt(s, k))}
    IN  IF N = {} THEN ""
        ELSE SubSeq(s, Min(N), CHOOSE x \in N : \A y \in N : y <= x)

\* does p occur in s at position i
StartsAt(s, i, p) ==
    /\ i >= 1
    /\ i + Len(p) - 1 <= Len(s)
    /\ Len(p) > 0 => CharAt(s, i) = CharAt(p, 1)
    /\ SubSeq(s, i, i + Len(p) - 1) = p

\* the same under the regular expression flag i (p is given in upper case)
StartsAtCI(s, i, p) ==
    /\ i >= 1
    /\ i + Len(p) - 1 <= Len(s)
    /\ Len(p) > 0 => UpChar(CharAt(s, i)) = CharAt(p, 1)
    /\ toUpperCase(SubSeq(s, i, i + Len(p) - 1)) = p

\* s.indexOf(p, i), 1-based, 0 when absent
indexOf(s, p, i) ==
    LET S == {j \in i..Len(s) : StartsAt(s, j, p)}
    IN  IF S = {} THEN 0 ELSE Min(S)

includes(s, p) == indexOf(s, p, 1) # 0

\* s.replace(/p/g, '') for a literal p
RECURSIVE removeAll(_, _)
removeAll(s, p) ==
    LET j == indexOf(s, p, 1)
    IN  IF j = 0 THEN s
        ELSE SubSeq(s, 1, j - 1) \o removeAll(SubSeq(s, j + Len(p), Len(s)), p)

\* s.split(sep) for a one-character sep
RECURSIVE split(_, _)
split(s, sep) ==
    LET j == indexOf(s, sep, 1)
    IN  IF j = 0 THEN <<s>>
        ELSE <<SubSeq(s, 1, j - 1)>> \o split(SubSeq(s, j + 1, Len(s)), sep)

SelectNonEmpty(lines) == SelectSeq(lines, LAMBDA l : Len(l) > 0)

\* ------------------------------------------------------------------------
\* AIInstructionParser: value transforms
\* ------------------------------------------------------------------------
RECURSIVE keepNumeric(_)
\* value.replace(/[^\d.-]/g, '')
keepNumeric(s) ==
    IF Len(s) = 0 THEN ""
    ELSE LET c == CharAt(s, 1)
         IN  (IF IsDigit(c) \/ c = "." \/ c = "-" THEN c ELSE "")
                 \o keepNumeric(SubSeq(s, 2, Len(s)))

RECURSIVE digitRun(_)
\* the longest prefix of s made of decimal digits
digitRun(s) ==
    IF Len(s) = 0 \/ ~IsDigit(CharAt(s, 1)) THEN ""
    ELSE CharAt(s, 1) \o digitRun(SubSeq(s, 2, Len(s)))

RECURSIVE digitsToInt(_)
digitsToInt(d) ==
    IF Len(d) = 0 THEN 0
    ELSE 10 * digitsToInt(SubSeq(d, 1, Len(d) - 1)) + (PosIn(Digits, CharAt(d, Len(d))) - 1)

\* the fraction digits as thousandths (digits after the third are dropped)
fracToMilli(f) == digitsToInt(SubSeq(f \o "000", 1, 3))

\* the digits that follow a decimal point at the head of rest, else ""
fractionDigits(rest) ==
    IF Len(rest) > 0 /\ CharAt(rest, 1) = "."
    THEN digitRun(SubSeq(rest, 2, Len(rest))) ELSE ""

\* the number with integer digits ip and fraction digits fp, in thousandths;
\* Undef (NaN) when there is no digit at all
decimalValue(ip, fp) ==
    IF Len(ip) = 0 /\ Len(fp) = 0 THEN Undef
    ELSE Some(Scale * digitsToInt(ip) + fracToMilli(fp))

\* the longest prefix digits[.digits] of body, whose integer digits are ip
decimalAfter(body, ip) ==
    decimalValue(ip, fractionDigits(SubSeq(body, Len(ip) + 1, Len(body))))

unsignedFloat(body) == decimalAfter(body, digitRun(body))

negate(o) == IF Has(o) THEN Some(0 - Val(o)) ELSE Undef

\* parseFloat(s): the longest prefix [-]digits[.digits] with at least one digit,
\* in thousandths; Undef for NaN
parseFloat(s) ==
    IF Len(s) > 0 /\ CharAt(s, 1) = "-"
    THEN negate(unsignedFloat(SubSeq(s, 2, Len(s))))
    ELSE unsignedFloat(s)

parseNumber(value) == parseFloat(keepNumeric(value))

parsePrice(value) ==
    IF includes(toUpperCase(value), "MARKET") THEN Undef ELSE parseNumber(value)

actionMap ==
    [a \in {"BUY", "LONG", "SELL", "SHORT", "CLOSE", "EXIT", "HOLD", "WAIT",
            "SET_STOP_LOSS", "SET_TAKE_PROFIT"} |->
        CASE a = "LONG"  -> "BUY"
          [] a = "SHORT" -> "SELL"
          [] a = "EXIT"  -> "CLOSE"
          [] a = "WAIT"  -> "HOLD"
          [] OTHER       -> a]

\* actionMap[action], undefined for a word the map does not hold
mappedAction(action) ==
    IF action \in DOMAIN actionMap THEN Some(actionMap[action]) ELSE Undef

parseAction(value) == mappedAction(trim(toUpperCase(value)))

\* symbol.replace(/^(FUTURES?|SPOT)_?/i, '')
\* the length of the FUTURES, FUTURE or SPOT at the head of symbol, else 0
prefixLength(symbol) ==
    IF StartsAtCI(symbol, 1, "FUTURES") THEN 7
    ELSE IF StartsAtCI(symbol, 1, "FUTURE") THEN 6
    ELSE IF StartsAtCI(symbol, 1, "SPOT") THEN 4
    ELSE 0

\* symbol without its first n characters and the _ that may follow them
dropPrefix(symbol, n) ==
    SubSeq(symbol, (IF n > 0 /\ StartsAt(symbol, n + 1, "_") THEN n + 2 ELSE n + 1),
           Len(symbol))

stripPrefix(symbol) == dropPrefix(symbol, prefixLength(symbol))

\* if (!symbol.includes('USDT') && !symbol.includes('BUSD')) symbol += 'USDT'
withQuote(symbol) ==
    IF ~includes(symbol, "USDT") /\ ~includes(symbol, "BUSD")
    THEN symbol \o "USDT" ELSE symbol

parseSymbol(value) == stripPrefix(withQuote(trim(toUpperCase(value))))

\* the priority a trimmed upper-case word stands for
priorityOf(priority) ==
    IF priority \in {"HIGH", "URGENT", "CRITICAL"} THEN "HIGH"
    ELSE IF priority \in {"MEDIUM", "NORMAL", "MODERATE"} THEN "MEDIUM"
    ELSE "LOW"

parsePriority(value) == priorityOf(trim(toUpperCase(value)))

\* JavaScript truthiness of an optional number / an optional string
TruthyNum(o) == Has(o) /\ Val(o) # 0

TruthyStr(o) == Has(o) /\ Val(o) # ""

\* ------------------------------------------------------------------------
\* AIInstructionParser: normalisation and block extraction
\* ------------------------------------------------------------------------
\* a TLA+ string cannot hold the backquote character: in every text of this
\* model the character ~ stands for it, so Fence is the markdown code fence
Backquote == "~"

Fence == Backquote \o Backquote \o Backquote

RECURSIVE removeFences(_)
\* response.replace(/FENCE[\s\S]*?FENCE/g, ''): every fence pair goes together
\* with the text it encloses; an unclosed fence stays
removeFences(s) ==
    LET i == indexOf(s, Fence, 1)
        j == IF i = 0 THEN 0 ELSE indexOf(s, Fence, i + 3)
    IN  IF j = 0 THEN s
        ELSE SubSeq(s, 1, i - 1) \o removeFences(SubSeq(s, j + 3, Len(s)))

RECURSIVE hashRun(_, _)
\* the number of consecutive # from position i
hashRun(s, i) ==
    IF i > Len(s) \/ CharAt(s, i) # "#" THEN 0 ELSE 1 + hashRun(s, i + 1)

RECURSIVE removeHeadings(_)
\* s.replace(/#{1,6}\s/g, ''): one to six # followed by a white-space character
removeHeadings(s) ==
    LET M == {i \in 1..Len(s) :
                /\ CharAt(s, i) = "#"
                /\ hashRun(s, i) <= 6
                /\ i + hashRun(s, i) <= Len(s)
                /\ IsSpace(CharAt(s, i + hashRun(s, i)))}
    IN  IF M = {} THEN s
        ELSE LET i == Min(M)
             IN  SubSeq(s, 1, i - 1)
                     \o removeHeadings(SubSeq(s, i + hashRun(s, i) + 1, Len(s)))

cleanResponse(response) ==
    trim(removeHeadings(removeAll(removeAll(removeFences(response), "**"), "*")))

Marker == "TRADE_DECISION:"

\* the first position from i on that is not white space (Len(s) + 1 if none)
RECURSIVE skipSpace(_, _)
skipSpace(s, i) ==
    IF i <= Len(s) /\ IsSpace(CharAt(s, i)) THEN skipSpace(s, i + 1) ELSE i

\* first position at or after i where the marker starts, ignoring case
markerFrom(s, i) ==
    LET S == {j \in i..Len(s) : StartsAtCI(s, j, Marker)}
    IN  IF S = {} THEN 0 ELSE Min(S)

\* the end (exclusive) of the lazy body that starts at i: the first position
\* where the look-ahead (?=TRADE_DECISION:|---|$) holds
blockEnd(s, i) ==
    LET S == {j \in i..Len(s) : StartsAtCI(s, j, Marker) \/ StartsAt(s, j, "---")}
    IN  IF S = {} THEN Len(s) + 1 ELSE Min(S)

RECURSIVE strictMatches(_, _)
\* the match s[i..e-1] and the matches that follow it
strictMatchAt(s, i, e) == <<SubSeq(s, i, e - 1)>> \o strictMatches(s, e)

\* the matches when the next marker starts at i (0: there is none)
strictFrom(s, i) ==
    IF i = 0 THEN <<>>
    ELSE strictMatchAt(s, i, blockEnd(s, skipSpace(s, i + Len(Marker))))

\* response.match(/TRADE_DECISION:\s*([\s\S]*?)(?=TRADE_DECISION:|---|$)/gi)
\* from position from on
strictMatches(s, from) == strictFrom(s, markerFrom(s, from))

\* match.replace(/^TRADE_DECISION:\s*/i, '').trim()
stripMarker(m) ==
    trim(IF StartsAtCI(m, 1, Marker)
         THEN SubSeq(m, skipSpace(m, Len(Marker) + 1), Len(m)) ELSE m)

IsSepChar(c) == IsSpace(c) \/ c = ":"

\* length of the TRADE, DECISION or ACTION at position i, else 0
looseKeyLength(s, i) ==
    IF StartsAtCI(s, i, "TRADE") THEN 5
    ELSE IF StartsAtCI(s, i, "DECISION") THEN 8
    ELSE IF StartsAtCI(s, i, "ACTION") THEN 6
    ELSE 0

\* k if the k characters at i are followed by [\s:], else 0
followedBySep(s, i, k) ==
    IF k > 0 /\ i + k <= Len(s) /\ IsSepChar(CharAt(s, i + k)) THEN k ELSE 0

\* length of TRADE, DECISION or ACTION at position i followed by [\s:], else 0
looseKeyAt(s, i) == followedBySep(s, i, looseKeyLength(s, i))

\* first position at or after from where such a key starts, 0 when none
nextLooseKey(s, from) ==
    LET S == {j \in from..Len(s) : looseKeyAt(s, j) > 0}
    IN  IF S = {} THEN 0 ELSE Min(S)

\* position j, or the end of s when j is 0
orEnd(s, j) == IF j = 0 THEN Len(s) + 1 ELSE j

RECURSIVE skipSep(_, _)
skipSep(s, i) ==
    IF i <= Len(s) /\ IsSepChar(CharAt(s, i)) THEN skipSep(s, i + 1) ELSE i

RECURSIVE looseMatches(_, _)
\* the match s[i..e-1] and the matches that follow it
looseMatchAt(s, i, e) == <<SubSeq(s, i, e - 1)>> \o looseMatches(s, e)

\* the matches when the next key starts at i (0: there is none): the lazy body
\* ends where the look-ahead first holds
looseFrom(s, i) ==
    IF i = 0 THEN <<>>
    ELSE looseMatchAt(s, i, orEnd(s, nextLooseKey(s, skipSep(s, i + looseKeyAt(s, i)))))

\* response.match(/(?:TRADE|DECISION|ACTION)[\s:]+[\s\S]*?(?=(?:TRADE|DECISION|ACTION)[\s:]|$)/gi)
\* from position from on
looseMatches(s, from) == looseFrom(s, nextLooseKey(s, from))

\* matches.map(match => match.replace(...).trim()), or the looser pattern's
\* matches when the strict pattern has none
blocksOf(response, matches) ==
    IF matches = <<>> THEN looseMatches(response, 1)
    ELSE [k \in 1..Len(matches) |-> stripMarker(matches[k])]

extractTradeBlocks(response) == blocksOf(response, strictMatches(response, 1))

\* ------------------------------------------------------------------------
\* AIInstructionParser: blocks to instructions
\* ------------------------------------------------------------------------
\* a TradingInstruction; every field but action is optional in the object the
\* parser builds
EmptyInstruction ==
    [action |-> Undef, symbol |-> Undef, quantity |-> Undef, price |-> Undef,
     leverage |-> Undef, stopLoss |-> Undef, takeProfit |-> Undef,
     reason |-> Undef, confidence |-> Undef, priority |-> Undef,
     riskReward |-> Undef, maxHoldTime |-> Undef]

\* parseNumber(value) || 0
orZero(number) == IF TruthyNum(number) THEN number ELSE Some(0)

\* the switch on the lower-cased key
setField(instruction, lowerKey, value) ==
    CASE lowerKey = "action" ->
            [instruction EXCEPT !.action = parseAction(value)]
      [] lowerKey = "symbol" ->
            [instruction EXCEPT !.symbol = Some(parseSymbol(value))]
      [] lowerKey = "quantity" ->
            [instruction EXCEPT !.quantity = parseNumber(value)]
      [] lowerKey = "leverage" ->
            [instruction EXCEPT !.leverage = parseNumber(value)]
      [] lowerKey \in {"entry price", "price"} ->
            [instruction EXCEPT !.price = parsePrice(value)]
      [] lowerKey \in {"stop loss", "stoploss"} ->
            [instruction EXCEPT !.stopLoss = parseNumber(value)]
      [] lowerKey \in {"take profit", "takeprofit"} ->
            [instruction EXCEPT !.takeProfit = parseNumber(value)]
      [] lowerKey = "confidence" ->
            [instruction EXCEPT !.confidence = orZero(parseNumber(value))]
      [] lowerKey = "priority" ->
            [instruction EXCEPT !.priority = Some(parsePriority(value))]
      [] lowerKey = "reason" ->
            [instruction EXCEPT !.reason = Some(value)]
      [] lowerKey \in {"risk reward", "riskreward"} ->
            [instruction EXCEPT !.riskReward = Some(value)]
      [] lowerKey \in {"max hold time", "maxholdtime"} ->
            [instruction EXCEPT !.maxHoldTime = Some(value)]
      [] OTHER -> instruction

\* a line whose first colon is at position colon: key is the text before it,
\* valueParts.join(':') the text after it
splitLine(instruction, line, colon) ==
    setField(instruction,
             trim(toLowerCase(SubSeq(line, 1, colon - 1))),
             trim(SubSeq(line, colon + 1, Len(line))))

\* one line of a block: a line without a colon is passed over
applyLine(instruction, line) ==
    IF ~includes(line, ":") THEN instruction
    ELSE splitLine(instruction, line, indexOf(line, ":", 1))

RECURSIVE applyLines(_, _)
\* the for loop over the lines, left at the first line that holds ---
applyLines(instruction, lines) ==
    IF lines = <<>> \/ includes(Head(lines), "---") THEN instruction
    ELSE applyLines(applyLine(instruction, Head(lines)), Tail(lines))

\* text || fallback and number || fallback
strOr(o, fallback) == IF TruthyStr(o) THEN o ELSE Some(fallback)

numOr(o, fallback) == IF TruthyNum(o) THEN o ELSE Some(fallback)

\* an instruction built whenever the block has an action, HOLD for all pairs
\* when no symbol is given
builtWithoutSymbol(instruction) ==
    IF ~Has(instruction.action) THEN Undef
    ELSE IF instruction.action = Some("HOLD")
    THEN Some([EmptyInstruction EXCEPT
                !.action = Some("HOLD"),
                !.symbol = strOr(instruction.symbol, "ALL"),
                !.reason = strOr(instruction.reason,
                                 "AI recommends holding current positions"),
                !.confidence = numOr(instruction.confidence, 50 * Scale),
                !.priority = strOr(instruction.priority, "LOW")])
    ELSE Some(instruction)

\* what parseTradeBlock returns for the fields its loop has set; Undef stands
\* for null
builtInstruction(instruction) ==
    IF ~Has(instruction.action) \/ ~TruthyStr(instruction.symbol) THEN Undef
    ELSE IF instruction.action = Some("HOLD")
    THEN Some([EmptyInstruction EXCEPT
                !.action = Some("HOLD"),
                !.symbol = strOr(instruction.symbol, "ALL"),
                !.reason = strOr(instruction.reason,
                                 "AI recommends holding current positions"),
                !.confidence = numOr(instruction.confidence, 50 * Scale),
                !.priority = strOr(instruction.priority, "LOW")])
    ELSE Some(instruction)

\* map(line => line.trim()).filter(line => line.length > 0)
trimmedLines(raw) == SelectNonEmpty([k \in 1..Len(raw) |-> trim(raw[k])])

parseTradeBlock(block) ==
    builtInstruction(applyLines(EmptyInstruction, trimmedLines(split(block, "\n"))))

\* /([A-Z]{2,10}(?:USDT|BUSD))/ tried at position i: the length matched, else 0
symbolShapeAt(s, i) ==
    LET K == {k \in 2..10 :
                /\ i + k - 1 <= Len(s)
                /\ \A m \in i..(i + k - 1) : IsUpperLetter(CharAt(s, m))
                /\ (StartsAt(s, i + k, "USDT") \/ StartsAt(s, i + k, "BUSD"))}
    IN  IF K = {} THEN 0 ELSE (CHOOSE k \in K : \A m \in K : m <= k) + 4

\* response.match(/([A-Z]{2,10}(?:USDT|BUSD))/): the leftmost match, or ""
\* the match that starts at i (0: no match, the symbol stays '')
symbolFrom(s, i) ==
    IF i = 0 THEN "" ELSE SubSeq(s, i, i + symbolShapeAt(s, i) - 1)

symbolMatch(s) ==
    LET S == {i \in 1..Len(s) : symbolShapeAt(s, i) > 0}
    IN  symbolFrom(s, IF S = {} THEN 0 ELSE Min(S))

\* the buy or sell signal read off the lower-cased response
fallbackAction(lowerResponse) ==
    IF includes(lowerResponse, "buy") \/ includes(lowerResponse, "long")
    THEN Some("BUY")
    ELSE IF includes(lowerResponse, "sell") \/ includes(lowerResponse, "short")
    THEN Some("SELL")
    ELSE Undef

\* if (action && symbol) ... return null
fallbackTrade(action, symbol) ==
    IF Has(action) /\ symbol # ""
    THEN Some([EmptyInstruction EXCEPT
                !.action = action, !.symbol = Some(symbol),
                !.reason = Some("Parsed from unstructured AI response"),
                !.confidence = Some(30 * Scale), !.priority = Some("LOW")])
    ELSE Undef

\* the scan with the buy or sell signal tried before the hold keywords
fallbackDirectionFirst(response, lowerResponse) ==
    IF Has(fallbackTrade(fallbackAction(lowerResponse), symbolMatch(response)))
    THEN fallbackTrade(fallbackAction(lowerResponse), symbolMatch(response))
    ELSE IF \/ includes(lowerResponse, "hold")
            \/ includes(lowerResponse, "wait")
            \/ includes(lowerResponse, "no trade")
    THEN Some([EmptyInstruction EXCEPT
                !.action = Some("HOLD"), !.symbol = Some("ALL"),
                !.reason = Some("AI recommends holding based on current market conditions"),
                !.confidence = Some(50 * Scale), !.priority = Some("LOW")])
    ELSE Undef

fallbackFrom(response, lowerResponse) ==
    IF \/ includes(lowerResponse, "hold")
       \/ includes(lowerResponse, "wait")
       \/ includes(lowerResponse, "no trade")
    THEN Some([EmptyInstruction EXCEPT
                !.action = Some("HOLD"), !.symbol = Some("ALL"),
                !.reason = Some("AI recommends holding based on current market conditions"),
                !.confidence = Some(50 * Scale), !.priority = Some("LOW")])
    ELSE fallbackTrade(fallbackAction(lowerResponse), symbolMatch(response))

parseFallbackResponse(response) == fallbackFrom(response, toLowerCase(response))

\* ------------------------------------------------------------------------
\* AIInstructionParser: validation and parseAIResponse
\* ------------------------------------------------------------------------
validSymbols ==
    {"BTCUSDT", "ETHUSDT", "ADAUSDT", "DOGEUSDT", "BNBUSDT",
     "XRPUSDT", "SOLUSDT", "MATICUSDT", "DOTUSDT", "AVAXUSDT",
     "LTCUSDT", "LINKUSDT", "UNIUSDT", "ATOMUSDT", "FILUSDT",
     "TRXUSDT", "ETCUSDT", "XLMUSDT", "VETUSDT", "ICPUSDT"}

isValidSymbol(symbol) == toUpperCase(symbol) \in validSymbols

\* riskReward.match(/1:(\d+\.?\d*)/): the captured ratio in thousandths, or Undef
riskRewardRatio(rr) ==
    LET S == {i \in 1..Len(rr) :
                StartsAt(rr, i, "1:") /\ i + 2 <= Len(rr) /\ IsDigit(CharAt(rr, i + 2))}
    IN  IF S = {} THEN Undef
        ELSE unsignedFloat(SubSeq(rr, Min(S) + 2, Len(rr)))

IfSeq(cond, entry) == IF cond THEN <<entry>> ELSE <<>>

LeverageErrors(instruction) ==
    IfSeq(/\ TruthyNum(instruction.leverage)
          /\ (Val(instruction.leverage) < 1 * Scale \/ Val(instruction.leverage) > 50 * Scale),
          "Leverage must be between 1 and 50")

ConfidenceErrors(instruction) ==
    IfSeq(/\ Has(instruction.confidence)
          /\ (Val(instruction.confidence) < 0 \/ Val(instruction.confidence) > 100 * Scale),
          "Confidence must be between 0 and 100")

\* the test with CLOSE forgotten
isTradingOrClose(instruction) == instruction.action # Some("HOLD")

\* action !== 'HOLD' && action !== 'CLOSE'
isTrading(instruction) ==
    instruction.action # Some("HOLD") /\ instruction.action # Some("CLOSE")

\* action === 'BUY' || action === 'SELL'
isEntry(instruction) == instruction.action \in {Some("BUY"), Some("SELL")}

\* rrMatch && ratio < 1.5 for the ratio the pattern captured
lowRatio(ratio) == Has(ratio) /\ Val(ratio) < 1500

errorsOf(instruction) ==
       IfSeq(~Has(instruction.action), "Action is required")
    \o IfSeq(~TruthyStr(instruction.symbol), "Symbol is required")
    \o IfSeq(/\ isTrading(instruction)
             /\ ~TruthyNum(instruction.quantity)
             /\ ~TruthyNum(instruction.price),
             "Either quantity or price must be specified for trading actions")
    \o (IF isTrading(instruction) THEN LeverageErrors(instruction) ELSE <<>>)
    \o ConfidenceErrors(instruction)
    \o IF TruthyStr(instruction.symbol) /\ ~isValidSymbol(Val(instruction.symbol))
       THEN <<"Invalid trading symbol: " \o Val(instruction.symbol)>> ELSE <<>>

warningsOf(instruction) ==
       IfSeq(~TruthyStr(instruction.reason), "No reason provided for trading decision")
    \o IfSeq(isTrading(instruction) /\ isEntry(instruction)
                /\ ~TruthyNum(instruction.stopLoss),
             "No stop loss specified - high risk")
    \o IfSeq(isTrading(instruction) /\ isEntry(instruction)
                /\ ~TruthyNum(instruction.takeProfit),
             "No take profit specified - consider setting exit strategy")
    \o IfSeq(Has(instruction.confidence) /\ Val(instruction.confidence) < 50 * Scale,
             "Low confidence level - consider skipping this trade")
    \o IfSeq(/\ TruthyStr(instruction.riskReward)
             /\ lowRatio(riskRewardRatio(Val(instruction.riskReward))),
             "Risk/reward ratio is less than 1:1.5 - consider better opportunities")

\* a result that warnings make invalid too
validationStrict(errors, warnings) ==
    [isValid |-> errors = <<>> /\ warnings = <<>>, errors |-> errors,
     warnings |-> warnings]

\* { isValid: errors.length === 0, errors, warnings }
validationOf(errors, warnings) ==
    [isValid |-> errors = <<>>, errors |-> errors, warnings |-> warnings]

validateInstruction(instruction) ==
    validationOf(errorsOf(instruction), warningsOf(instruction))

RECURSIVE parseBlocks(_)
\* the loop over tradeBlocks: a block that yields null adds nothing
parseBlocks(blocks) ==
    IF blocks = <<>> THEN <<>>
    ELSE parseTradeBlock(Head(blocks)) \o parseBlocks(Tail(blocks))

\* every instruction kept, whatever validateInstruction returns
ValidOfAll(instructions) == instructions

\* the instructions the validation loop keeps
ValidOf(instructions) ==
    SelectSeq(instructions, LAMBDA i : validateInstruction(i).isValid)

\* the invalidInstructions entries of the instructions in bad
withErrors(bad) ==
    [k \in 1..Len(bad) |->
        [instruction |-> bad[k], errors |-> validateInstruction(bad[k]).errors]]

InvalidOf(instructions) ==
    withErrors(SelectSeq(instructions, LAMBDA i : ~validateInstruction(i).isValid))

\* the ParseResult for the instructions the blocks or the fallback gave
validated(response, parseErrors, instructions) ==
    [instructions        |-> instructions,
     rawResponse         |-> response,
     parseErrors         |-> parseErrors,
     validInstructions   |-> ValidOf(instructions),
     invalidInstructions |-> InvalidOf(instructions)]

\* parseAIResponse once the blocks are extracted: no block gives a parse error
\* and the fallback parse
parseCleaned(response, cleanedResponse, tradeBlocks) ==
    IF Len(tradeBlocks) = 0
    THEN validated(response, <<"No TRADE_DECISION blocks found in AI response">>,
                   parseFallbackResponse(cleanedResponse))
    ELSE validated(response, <<>>, parseBlocks(tradeBlocks))

extractFrom(response, cleanedResponse) ==
    parseCleaned(response, cleanedResponse, extractTradeBlocks(cleanedResponse))

parseAIResponse(response) == extractFrom(response, cleanResponse(response))

\* ------------------------------------------------------------------------
\* Inputs of the orchestrator model
\* ------------------------------------------------------------------------
\* the most start() calls, loop cycles and midnights of one run
MaxStarts == 2

MaxCycles == 2

MaxDay == 1

\* the largest daily cap a configuration is given
MaxCap == 1

BlockBuyBtc ==
    "TRADE_DECISION:\nAction: BUY\nSymbol: BTCUSDT\nQuantity: 0.5\nConfidence: 85\nReason: breakout\n---\n"

BlockSellEth ==
    "TRADE_DECISION:\nAction: SHORT\nSymbol: eth\nEntry Price: 3000\nLeverage: 5\nConfidence: 90%\n---\n"

BlockNoConfidence ==
    "TRADE_DECISION:\nAction: BUY\nSymbol: BTCUSDT\nQuantity: 1\n---\n"

BlockBadLeverage ==
    "TRADE_DECISION:\nAction: SELL\nSymbol: BTCUSDT\nQuantity: 1\nLeverage: 100\nConfidence: 95\n---\n"

BlockLowConfidence ==
    "TRADE_DECISION:\nAction: BUY\nSymbol: ETHUSDT\nQuantity: 2\nConfidence: 40\n---\n"

BlockHold ==
    "TRADE_DECISION:\nAction: HOLD\nSymbol: BTCUSDT\nConfidence: 90\n---\n"

BlockOtherPair ==
    "TRADE_DECISION:\nAction: BUY\nSymbol: SOLUSDT\nQuantity: 3\nConfidence: 99\n---\n"

\* the texts the Model Provider may answer with: two executable blocks; a
\* block without a Confidence line; one executable block among blocks that
\* validation or the filter must drop; nothing executable
RespTwoTrades == BlockBuyBtc \o BlockSellEth

RespNoConfidence == BlockNoConfidence

RespMixed ==
    BlockBadLeverage \o BlockHold \o BlockOtherPair \o BlockLowConfidence \o BlockBuyBtc

RespNothing == "Markets are quiet.\n" \o BlockLowConfidence \o BlockHold

Responses == {RespTwoTrades, RespNoConfidence, RespMixed, RespNothing}

\* parseAIResponse of every answer, evaluated once
Parsed == [r \in Responses |-> parseAIResponse(r)]

\* AITradingConfig: the fields the orchestrator branches on.  A dry run is
\* configured with Telegram on and the indicators off, a live run with the
\* indicators on and Telegram on or off.
Configs ==
    {c \in [tradingPairs               : {<<"BTCUSDT", "ETHUSDT">>},
            maxDailyTrades             : {MaxCap},
            minConfidenceThreshold     : {70 * Scale},
            telegramEnabled            : BOOLEAN,
            technicalIndicatorsEnabled : BOOLEAN,
            dryRun                     : BOOLEAN] :
        /\ c.dryRun => c.telegramEnabled
        /\ c.dryRun = ~c.technicalIndicatorsEnabled}

\* what the exchange reads of one gatherMarketData call do: does
\* getAccountInfo resolve, does getPositions, and for each trading pair does
\* get24hrTicker and does getKlines
Reads ==
    [account   : BOOLEAN,
     positions : BOOLEAN,
     ticker    : [1..2 -> BOOLEAN],
     klines    : [1..2 -> BOOLEAN]]

\* ------------------------------------------------------------------------
\* AITradingService: state
\* ------------------------------------------------------------------------
VARIABLES
    config,               \* the AITradingConfig given to the constructor
    today,                \* the local calendar date, new Date().toDateString()
    isRunning,
    currentCycle,
    totalExecutedTrades,
    dailyTradeCount,
    lastResetDate,
    starts,               \* the start() calls suspended at each of its awaits
    loops,                \* the bag of live loop closures, one per startTradingLoop()
    cycleResult,          \* the TradingCycleResult the step just taken returned, if any
    cyclesBegun,          \* the number of executeAITradingCycle calls so far
    startCalls,           \* the number of start() calls that passed the guard
    stopped,              \* where it is recorded: has stop() cleared the flag with
                          \* no start() call since
    call                  \* the handleAITradeCommand call under way, if any

vars ==
    <<config, today, isRunning, currentCycle, totalExecutedTrades,
      dailyTradeCount, lastResetDate, starts, loops, cycleResult, cyclesBegun, startCalls, stopped, call>>

\* a loop closure and the locals of the executeAITradingCycle call it awaits.
\* pc: "timer" (setTimeout pending), "gather", "model", "risk", "exec",
\* "notify" (the await the cycle is suspended at).  A closure that returns
\* without a new timer leaves the bag.
\* assessed / executed list the positions (in validInstructions) of the
\* instructions the cycle has handed to the Risk Manager and to the Trade
\* Executor, placed those for which the Trade Executor returned success;
\* dataReads and modelCalls count its gatherMarketData and requestDecision
\* calls; prompt is the market data of the prompt requestDecision holds.
\* The locals are dropped when the cycle returns.
NewFrame ==
    [pc |-> "timer", validInstructions |-> <<>>, idx |-> 0,
     executionResults |-> <<>>, assessed |-> <<>>, executed |-> <<>>,
     placed |-> <<>>, dataReads |-> 0, modelCalls |-> 0, aiResponse |-> "",
     prompt |-> Undef]

\* no command under way: the service was constructed by other code
NoCall == [pc |-> "none"]

\* the fields of a new AITradingService
ServiceFields ==
    /\ today = 0
    /\ isRunning = FALSE
    /\ currentCycle = 0
    /\ totalExecutedTrades = 0
    /\ dailyTradeCount = 0
    /\ lastResetDate = 0
    /\ starts = [validating |-> 0, notifying |-> 0]
    /\ startCalls = 0
    /\ loops = EmptyBag
    /\ cycleResult = Undef
    /\ cyclesBegun = 0

\* a new AITradingService whose stop() calls are not recorded
InitService ==
    /\ ServiceFields
    /\ stopped = Undef

\* stop() has cleared the flag with no start() call since
Stopped == Has(stopped) /\ Val(stopped)

\* the record of stop() after a step, kept only where it is recorded
Noted(flag) == IF Has(stopped) THEN Some(flag) ELSE Undef

Init ==
    /\ config \in Configs
    /\ call = NoCall
    /\ InitService

\* ------------------------------------------------------------------------
\* AITradingService: helpers
\* ------------------------------------------------------------------------
\* the reset made at every cycle start
resetDailyCountAlways == [dailyTradeCount |-> 0, lastResetDate |-> today]

\* the counter kept whatever the date
resetDailyCountNever == [dailyTradeCount |-> dailyTradeCount, lastResetDate |-> today]

\* the counter and the date resetDailyCountIfNeeded leaves
resetDailyCountIfNeeded ==
    [dailyTradeCount |-> IF today # lastResetDate THEN 0 ELSE dailyTradeCount,
     lastResetDate   |-> today]

\* the cap test with > written for >=
DailyLimitExceeded(count) == count > config.maxDailyTrades

\* the cap test at the head of executeAITradingCycle
DailyLimitReached(count) == count >= config.maxDailyTrades

\* the pair test made against the parser's list of known symbols
InKnownSymbols(symbol) == isValidSymbol(symbol)

\* tradingPairs.includes(symbol)
InPairs(symbol) ==
    \E k \in 1..Len(config.tradingPairs) : config.tradingPairs[k] = symbol

\* JavaScript's instruction.confidence < threshold: false for undefined
BelowThreshold(instruction) ==
    /\ Has(instruction.confidence)
    /\ Val(instruction.confidence) < config.minConfidenceThreshold

\* the filter walking every decoded instruction
FilterSourceUnvalidated(parseResult) == parseResult.instructions

\* the list filterInstructions walks
FilterSource(parseResult) == parseResult.validInstructions

filterInstructions(parseResult) ==
    SelectSeq(FilterSource(parseResult),
              LAMBDA instruction :
                  /\ ~BelowThreshold(instruction)
                  /\ InPairs(Val(instruction.symbol))
                  /\ instruction.action # Some("HOLD"))

createSkippedCycleResult(reason) ==
    [success |-> TRUE, error |-> Undef, aiResponse |-> "Cycle skipped: " \o reason,
     instructions |-> <<>>, executionResults |-> <<>>]

createFailedCycleResult(error) ==
    [success |-> FALSE, error |-> Some(error), aiResponse |-> "",
     instructions |-> <<>>, executionResults |-> <<>>]

createSuccessfulCycleResult(aiResponse, instructions, executionResults) ==
    [success |-> TRUE, error |-> Undef, aiResponse |-> aiResponse,
     instructions |-> instructions, executionResults |-> executionResults]

\* the ExecutionResult executeInstruction builds in its catch clause
FailedExecution(instruction, error) ==
    [success |-> FALSE, instruction |-> instruction, error |-> Some(error)]

\* the ExecutionResult the Trade Executor returns
ExecutorResult(instruction, success) ==
    [success |-> success, instruction |-> instruction,
     error |-> IF success THEN Undef ELSE Some("Order rejected")]

\* the closures when the one in frame from has gone on to frame to
Moved(from, to) == (loops (-) SetToBag({from})) (+) SetToBag({to})

\* the closures when the one in frame has returned without a new timer
Ended(frame) == loops (-) SetToBag({frame})

\* the closure that schedules the next timer without testing isRunning
AlwaysRescheduled(frame) == Moved(frame, NewFrame)

\* the closure that never schedules another timer
NeverRescheduled(frame) == Ended(frame)

\* the closures once the cycle of the one in frame has returned: the closure
\* schedules the next timer when the service is still running, else it ends
Rescheduled(frame) ==
    IF isRunning THEN Moved(frame, NewFrame) ELSE Ended(frame)

\* the guard of the execute step without the dryRun test
ShouldExecuteAlways(validInstructions) == Len(validInstructions) > 0

\* the guard of the execute step
ShouldExecute(validInstructions) ==
    ~config.dryRun /\ Len(validInstructions) > 0

\* every ExecutionResult counted as a trade
CountsEveryResult(result) == TRUE

\* the test that lets an ExecutionResult count as a trade
CountsAsTrade(result) == result.success

\* is instruction idx the last one of the for loop
LastInstruction(frame) == frame.idx >= Len(frame.validInstructions)

\* the for loop pushing only the results that succeeded
AdvanceKeepingSuccesses(frame, result) ==
    [frame EXCEPT
        !.executionResults = IF result.success THEN Append(@, result) ELSE @,
        !.idx = @ + 1, !.pc = "risk",
        !.assessed = Append(@, frame.idx + 1)]

\* the frame once the ExecutionResult of instruction idx, not the last one,
\* has been pushed: the for loop calls executeInstruction for the next
\* instruction, which calls assessRisk
Advance(frame, result) ==
    [frame EXCEPT
        !.executionResults = Append(@, result),
        !.idx = @ + 1, !.pc = "risk",
        !.assessed = Append(@, frame.idx + 1)]

\* ------------------------------------------------------------------------
\* AITradingService: start() and stop()
\* ------------------------------------------------------------------------
\* the guard of start() that never throws
GuardNeverThrows == FALSE

\* the guard of start(): if (this.isRunning) throw
AlreadyRunning == isRunning

\* start() up to its first await: the guard throws when the service is
\* running and nothing changes, else validateConnections begins
Start ==
    /\ startCalls < MaxStarts
    /\ IF AlreadyRunning
       THEN UNCHANGED <<starts, startCalls, stopped>>
       ELSE /\ starts' = [starts EXCEPT !.validating = @ + 1]
            /\ startCalls' = startCalls + 1
            /\ stopped' = Noted(FALSE)
    /\ UNCHANGED <<config, today, isRunning, currentCycle, totalExecutedTrades,
                   dailyTradeCount, lastResetDate, loops, cyclesBegun>>
    /\ cycleResult' = Undef

\* startTradingLoop(): setTimeout(loop, 0)
startTradingLoop == loops (+) SetToBag({NewFrame})

\* validateConnections settles: it throws, or start() sets isRunning and goes
\* on to the start notification (awaited) or straight to startTradingLoop
StartValidated ==
    /\ starts.validating > 0
    /\ \E ok \in BOOLEAN :
        IF ~ok
        THEN /\ starts' = [starts EXCEPT !.validating = @ - 1]
             /\ UNCHANGED <<isRunning, loops>>
        ELSE /\ isRunning' = TRUE
             /\ IF config.telegramEnabled
                THEN /\ starts' = [starts EXCEPT !.validating = @ - 1,
                                                 !.notifying = @ + 1]
                     /\ UNCHANGED loops
                ELSE /\ starts' = [starts EXCEPT !.validating = @ - 1]
                     /\ loops' = startTradingLoop
    /\ UNCHANGED <<config, today, currentCycle, totalExecutedTrades,
                   dailyTradeCount, lastResetDate, cyclesBegun, startCalls, stopped, call>>
    /\ cycleResult' = Undef

\* the start notification settles: sendMessage throws out of start(), or the
\* trading loop is started
StartNotified ==
    /\ starts.notifying > 0
    /\ starts' = [starts EXCEPT !.notifying = @ - 1]
    /\ \E ok \in BOOLEAN :
        IF ok THEN loops' = startTradingLoop ELSE UNCHANGED loops
    /\ UNCHANGED <<config, today, isRunning, currentCycle, totalExecutedTrades,
                   dailyTradeCount, lastResetDate, cyclesBegun, startCalls, stopped, call>>
    /\ cycleResult' = Undef

\* stop(): a no-op when not running, else the flag is cleared (the stop
\* notification that follows changes no state)
Stop ==
    /\ isRunning' = FALSE
    /\ stopped' = Noted(isRunning \/ Stopped)
    /\ UNCHANGED <<config, today, currentCycle, totalExecutedTrades,
                   dailyTradeCount, lastResetDate, starts, loops, cyclesBegun,
                   startCalls, call>>
    /\ cycleResult' = Undef

\* the local calendar date changes
Midnight ==
    /\ today < MaxDay
    /\ today' = today + 1
    /\ UNCHANGED <<config, isRunning, currentCycle, totalExecutedTrades,
                   dailyTradeCount, lastResetDate, starts, loops, cyclesBegun, startCalls, stopped, call>>
    /\ cycleResult' = Undef

\* ------------------------------------------------------------------------
\* AITradingService: the trading loop and executeAITradingCycle
\* ------------------------------------------------------------------------
\* the timer of the closure in frame fires: the closure returns when the
\* service is stopped, else it calls executeAITradingCycle, which runs to its
\* first await (gatherMarketData) or returns the skipped result at once
TimerFires(frame) ==
    /\ frame.pc = "timer"
    /\ IF ~isRunning
       THEN /\ loops' = Ended(frame)
            /\ UNCHANGED <<dailyTradeCount, lastResetDate, cyclesBegun>>
            /\ cycleResult' = Undef
       ELSE /\ cyclesBegun < MaxCycles
            /\ cyclesBegun' = cyclesBegun + 1
            /\ dailyTradeCount' = resetDailyCountIfNeeded.dailyTradeCount
            /\ lastResetDate' = resetDailyCountIfNeeded.lastResetDate
            /\ IF DailyLimitReached(resetDailyCountIfNeeded.dailyTradeCount)
               THEN /\ loops' = Rescheduled(frame)
                    /\ cycleResult' =
                          Some(createSkippedCycleResult("Daily trade limit reached"))
               ELSE /\ loops' = Moved(frame,
                          [NewFrame EXCEPT !.pc = "gather", !.dataReads = 1])
                    /\ cycleResult' = Undef
    /\ UNCHANGED <<config, today, isRunning, currentCycle, totalExecutedTrades,
                   starts, startCalls, stopped, call>>

\* the catch clause of executeAITradingCycle: the failed result is returned
CycleFails(frame, error) ==
    /\ loops' = Rescheduled(frame)
    /\ cycleResult' = Some(createFailedCycleResult(error))
    /\ UNCHANGED <<config, today, isRunning, currentCycle, totalExecutedTrades,
                   dailyTradeCount, lastResetDate, starts, cyclesBegun, startCalls, stopped, call>>

\* the indicator values of the placeholder calculations and of the defaults
NeutralIndicators ==
    [rsi |-> 50, macd |-> 0, ema20 |-> 0, ema50 |-> 0, support |-> 0,
     resistance |-> 0]

\* getTechnicalIndicators of one pair, getKlines resolving or not
getTechnicalIndicators(klinesOk) ==
    IF ~config.technicalIndicatorsEnabled THEN NeutralIndicators
    ELSE IF klinesOk
    THEN [rsi |-> 50, macd |-> 0, ema20 |-> 0, ema50 |-> 0, support |-> 0,
          resistance |-> 0]
    ELSE NeutralIndicators

\* the positions in tradingPairs of the pairs whose get24hrTicker resolved
Priced(reads) ==
    SelectSeq([k \in 1..Len(config.tradingPairs) |-> k],
              LAMBDA k : reads.ticker[k])

\* the SymbolData entries pushed for the pairs at positions priced: a pair
\* whose ticker read throws is logged and left out
symbolDataOf(priced, reads) ==
    [j \in 1..Len(priced) |->
        [symbol |-> config.tradingPairs[priced[j]],
         technicalIndicators |-> getTechnicalIndicators(reads.klines[priced[j]])]]

getSymbolData(reads) == symbolDataOf(Priced(reads), reads)

\* the rejection of getPositions left unnoticed
GatherErrorsOfAccount(reads) ==
    IF reads.account THEN {} ELSE {"account info error"}

\* the rejections Promise.all of getAccountInfo and getPositions may settle
\* with
GatherErrors(reads) ==
    (IF reads.account THEN {} ELSE {"account info error"})
        \cup (IF reads.positions THEN {} ELSE {"positions error"})

\* the MarketData gatherMarketData resolves with, as the prompt shows it
gatherMarketData(reads) ==
    [accountInfo |-> reads.account, currentPositions |-> reads.positions,
     symbols |-> getSymbolData(reads)]

\* the outcomes of the reads of one gatherMarketData call, one for every
\* result it can settle with: getKlines is only called when the indicators are
\* enabled, the indicators of a pair whose ticker read throws are dropped,
\* and no symbol data is looked at once the account or positions read throws
ReadsOfCycle ==
    {reads \in Reads :
        /\ \A k \in 1..2 :
              (\/ ~config.technicalIndicatorsEnabled
               \/ ~reads.ticker[k]
               \/ GatherErrors(reads) # {}) => reads.klines[k]
        /\ \A k \in 1..2 : GatherErrors(reads) # {} => reads.ticker[k]}

\* gatherMarketData settles: an account or positions read throws, or the
\* prompt is built and requestDecision is called
GatherSettles(frame) ==
    /\ frame.pc = "gather"
    /\ \E reads \in ReadsOfCycle :
        IF GatherErrors(reads) = {}
        THEN /\ loops' = Moved(frame,
                    [frame EXCEPT !.pc = "model", !.modelCalls = @ + 1,
                                  !.prompt = Some(gatherMarketData(reads))])
             /\ UNCHANGED <<config, today, isRunning, currentCycle,
                            totalExecutedTrades, dailyTradeCount, lastResetDate,
                            starts, cyclesBegun, startCalls, stopped, call>>
             /\ cycleResult' = Undef
        ELSE \E error \in GatherErrors(reads) : CycleFails(frame, error)

\* requestDecision throws
ModelFails(frame) ==
    /\ frame.pc = "model"
    /\ CycleFails(frame, "provider error")

\* the cycle of the closure in frame once filterInstructions has left
\* validInstructions of the answer response: the execute step starts with
\* assessRisk for the first instruction, or the cycle records its result,
\* counts the cycle and returns
AfterFilter(frame, response, validInstructions) ==
    IF ShouldExecute(validInstructions)
    THEN /\ loops' = Moved(frame,
                [frame EXCEPT !.aiResponse = response, !.prompt = Undef,
                              !.validInstructions = validInstructions,
                              !.pc = "risk", !.idx = 1, !.assessed = <<1>>])
         /\ UNCHANGED currentCycle
         /\ cycleResult' = Undef
    ELSE /\ loops' = Rescheduled(frame)
         /\ cycleResult' = Some(createSuccessfulCycleResult(
                                    response, validInstructions, <<>>))
         /\ currentCycle' = currentCycle + 1

\* requestDecision answers: the answer is parsed and filtered
ModelAnswers(frame) ==
    /\ frame.pc = "model"
    /\ \E response \in Responses :
        AfterFilter(frame, response, filterInstructions(Parsed[response]))
    /\ UNCHANGED <<config, today, isRunning, totalExecutedTrades,
                   dailyTradeCount, lastResetDate, starts, cyclesBegun, startCalls, stopped, call>>

\* executeInstruction has produced result for instruction idx of the closure
\* in frame from, whose locals are now frame: the result is pushed and
\* counted, and the for loop goes on or the cycle records its result, counts
\* the cycle and returns
Record(from, frame, result) ==
    /\ totalExecutedTrades' = totalExecutedTrades + (IF CountsAsTrade(result) THEN 1 ELSE 0)
    /\ dailyTradeCount' = dailyTradeCount + (IF CountsAsTrade(result) THEN 1 ELSE 0)
    /\ IF LastInstruction(frame)
       THEN /\ loops' = Rescheduled(from)
            /\ currentCycle' = currentCycle + 1
            /\ cycleResult' = Some(createSuccessfulCycleResult(
                                    frame.aiResponse, frame.validInstructions,
                                    Append(frame.executionResults, result)))
       ELSE /\ loops' = Moved(from, Advance(frame, result))
            /\ UNCHANGED currentCycle
            /\ cycleResult' = Undef
    /\ UNCHANGED <<config, today, isRunning, lastResetDate, starts, cyclesBegun,
                   startCalls, stopped, call>>

\* the instruction executeInstruction is dealing with
Current(frame) == frame.validInstructions[frame.idx]

\* the Trade Executor called without await: the for loop goes on to the next
\* instruction while the call is pending
ExecutorNotAwaited(frame) ==
    IF frame.idx = Len(frame.validInstructions)
    THEN [frame EXCEPT !.pc = "exec", !.executed = Append(@, frame.idx)]
    ELSE [frame EXCEPT !.executed = Append(@, frame.idx), !.idx = @ + 1,
                       !.assessed = Append(@, frame.idx + 1)]

\* the frame once assessRisk has allowed and the Trade Executor is called
ExecutorCalled(frame) ==
    [frame EXCEPT !.pc = "exec", !.executed = Append(@, frame.idx)]

\* assessRisk settles: it allows and the Trade Executor is called, or it
\* disallows or throws and the catch clause builds the failed result
RiskSettles(frame) ==
    /\ frame.pc = "risk"
    /\ \E outcome \in {"allow", "deny", "throw"} :
        IF outcome = "allow"
        THEN /\ loops' = Moved(frame, ExecutorCalled(frame))
             /\ UNCHANGED <<config, today, isRunning, currentCycle,
                            totalExecutedTrades, dailyTradeCount, lastResetDate,
                            starts, cyclesBegun, startCalls, stopped, call>>
             /\ cycleResult' = Undef
        ELSE Record(frame, frame,
                    FailedExecution(Current(frame),
                        IF outcome = "deny" THEN "Risk check failed"
                        ELSE "risk manager error"))

\* the frame once the Trade Executor has returned success for instruction idx
Placed(frame) == [frame EXCEPT !.placed = Append(@, frame.idx)]

\* the Trade Executor settles: it throws, it returns a failed result, or it
\* returns success and the trade notification is sent when Telegram is on
ExecSettles(frame) ==
    /\ frame.pc = "exec"
    /\ \E outcome \in {"ok", "rejected", "throw"} :
        IF outcome = "ok" /\ config.telegramEnabled
        THEN /\ loops' = Moved(frame, [Placed(frame) EXCEPT !.pc = "notify"])
             /\ UNCHANGED <<config, today, isRunning, currentCycle,
                            totalExecutedTrades, dailyTradeCount, lastResetDate,
                            starts, cyclesBegun, startCalls, stopped, call>>
             /\ cycleResult' = Undef
        ELSE IF outcome = "ok"
        THEN Record(frame, Placed(frame), ExecutorResult(Current(frame), TRUE))
        ELSE Record(frame, frame,
                    IF outcome = "throw"
                    THEN FailedExecution(Current(frame), "executor error")
                    ELSE ExecutorResult(Current(frame), FALSE))

\* what executeInstruction returns once sendMessage has settled, the Trade
\* Executor having returned success: the send is inside the try block
AfterNotification(instruction, sent) ==
    IF sent THEN ExecutorResult(instruction, TRUE)
    ELSE FailedExecution(instruction, "telegram error")

\* the trade notification settles
NotifySettles(frame) ==
    /\ frame.pc = "notify"
    /\ \E sent \in BOOLEAN :
        Record(frame, frame, AfterNotification(Current(frame), sent))

\* the frames of the live loop closures
Frames == BagToSet(loops)

Next ==
    \/ Start /\ UNCHANGED call
    \/ Stop
    \/ Midnight
    \/ StartValidated
    \/ StartNotified
    \/ \E frame \in Frames : TimerFires(frame)
    \/ \E frame \in Frames : GatherSettles(frame)
    \/ \E frame \in Frames : ModelFails(frame)
    \/ \E frame \in Frames : ModelAnswers(frame)
    \/ \E frame \in Frames : RiskSettles(frame)
    \/ \E frame \in Frames : ExecSettles(frame)
    \/ \E frame \in Frames : NotifySettles(frame)

Spec == Init /\ [][Next]_vars

\* ------------------------------------------------------------------------
\* Claims
\* ------------------------------------------------------------------------
\* the closure in frame is inside an executeAITradingCycle call
InFlight(frame) == frame.pc \in {"gather", "model", "risk", "exec", "notify"}

\* C1: at most one executeAITradingCycle started by the trading loop is in
\* flight at any time, whatever start(), stop() and the timers do.
C1_OneCycleInFlight ==
    /\ Cardinality({frame \in Frames : InFlight(frame)}) <= 1
    /\ \A frame \in Frames : InFlight(frame) => CopiesIn(frame, loops) = 1

\* the closure in frame is in the execute step of a cycle
Executing(frame) == frame.pc \in {"risk", "exec", "notify"}

\* the elements of a list
Elements(list) == {list[k] : k \in 1..Len(list)}

\* the instructions the closure in frame has handed to the Risk Manager
\* (assessRisk) and to the Trade Executor in the cycle in flight
HandedOver(frame) ==
    {frame.validInstructions[k] :
        k \in Elements(frame.assessed) \cup Elements(frame.executed)}

\* the success flags of a list of ExecutionResults
Successes(results) == [k \in 1..Len(results) |-> results[k].success]

\* a closure in frame takes this step
Stepped(frame) == CopiesIn(frame, loops') < CopiesIn(frame, loops)

\* a closure is in frame after this step and was not before it
Entered(frame) == CopiesIn(frame, loops') > CopiesIn(frame, loops)

\* C2: a cycle that begins with dailyTradeCount >= maxDailyTrades (the date
\* reset applied) reads no market data and calls neither the Model Provider,
\* the Risk Manager nor the Trade Executor; it returns success = true with no
\* instructions and no executionResults, and leaves both counters as they are.
C2_CappedCycleSkipped ==
    [][(/\ cyclesBegun' = cyclesBegun + 1
        /\ resetDailyCountIfNeeded.dailyTradeCount >= config.maxDailyTrades)
       => /\ Has(cycleResult')
          /\ Val(cycleResult').success
          /\ Val(cycleResult').instructions = <<>>
          /\ Val(cycleResult').executionResults = <<>>
          /\ totalExecutedTrades' = totalExecutedTrades
          /\ dailyTradeCount' = resetDailyCountIfNeeded.dailyTradeCount
          /\ \A frame \in BagToSet(loops') :
                Entered(frame) =>
                    /\ frame.pc = "timer"
                    /\ frame.dataReads = 0
                    /\ frame.modelCalls = 0
                    /\ frame.assessed = <<>>
                    /\ frame.executed = <<>>]_vars

\* a cycle has been skipped at the cap after a trade was counted
C2_Witness ==
    /\ Has(cycleResult)
    /\ Val(cycleResult) = createSkippedCycleResult("Daily trade limit reached")
    /\ dailyTradeCount >= config.maxDailyTrades
    /\ totalExecutedTrades >= 1

\* the instructions decoded from the answers
Decoded == UNION {Elements(Parsed[r].instructions) : r \in Responses}

\* the decoded instructions validateInstruction finds no error in
ErrorFree == {i \in Decoded : validateInstruction(i).errors = <<>>}

\* C3: an instruction handed to the Risk Manager or the Trade Executor has no
\* validation error, and the error-free instructions of a response are still
\* processed when a sibling of theirs has one: those the filter lets through
\* are all in the list the execute step walks.
C3_OnlyValidatedReachExecution ==
    \A frame \in Frames :
        Executing(frame) =>
            /\ \A i \in HandedOver(frame) : i \in ErrorFree
            /\ \A i \in Elements(Parsed[frame.aiResponse].instructions) :
                    (/\ i \in ErrorFree
                     /\ ~BelowThreshold(i)
                     /\ InPairs(Val(i.symbol))
                     /\ i.action # Some("HOLD"))
                    => i \in Elements(frame.validInstructions)

\* the Trade Executor holds the valid sibling of an instruction that has a
\* validation error
C3_Witness ==
    \E frame \in Frames :
        /\ frame.pc = "exec"
        /\ frame.aiResponse = RespMixed
        /\ Parsed[RespMixed].invalidInstructions # <<>>
        /\ frame.executed # <<>>

\* C4: every instruction handed to the Risk Manager or the Trade Executor has
\* a confidence that is not below minConfidenceThreshold; an instruction whose
\* block has no Confidence line counts as confidence 0 and is dropped.
C4_ConfidenceAtLeastThreshold ==
    \A frame \in Frames :
        \A i \in HandedOver(frame) :
            /\ Has(i.confidence)
            /\ Val(i.confidence) >= config.minConfidenceThreshold

\* C5: every instruction handed to the Risk Manager or the Trade Executor has
\* a symbol of tradingPairs and an action other than HOLD, and no HOLD
\* instruction is in a list for which ExecutionResults are produced.
C5_OnlyConfiguredPairsNoHold ==
    /\ \A frame \in Frames :
        /\ \A i \in HandedOver(frame) :
            /\ Val(i.symbol) \in Elements(config.tradingPairs)
            /\ i.action # Some("HOLD")
        /\ Executing(frame) =>
              \A i \in Elements(frame.validInstructions) : i.action # Some("HOLD")
    /\ (Has(cycleResult) /\ Val(cycleResult).executionResults # <<>>) =>
          /\ Len(Val(cycleResult).executionResults) <= Len(Val(cycleResult).instructions)
          /\ \A i \in Elements(Val(cycleResult).instructions) : i.action # Some("HOLD")

\* an answer with a HOLD and a pair outside tradingPairs has been executed
C5_Witness ==
    /\ Has(cycleResult)
    /\ Val(cycleResult).aiResponse = RespMixed
    /\ Len(Val(cycleResult).executionResults) = 1
    /\ \E i \in Elements(Parsed[RespMixed].validInstructions) : i.action = Some("HOLD")
    /\ \E i \in Elements(Parsed[RespMixed].validInstructions) :
            Val(i.symbol) \notin Elements(config.tradingPairs)

\* C6: with dryRun set no cycle calls the Risk Manager or the Trade Executor,
\* every cycle result has empty executionResults and the two counters never
\* change, while the answer of the model is still decoded and filtered.
C6_DryRunExecutesNothing ==
    config.dryRun =>
        /\ \A frame \in Frames :
            /\ ~Executing(frame)
            /\ frame.assessed = <<>>
            /\ frame.executed = <<>>
        /\ totalExecutedTrades = 0
        /\ dailyTradeCount = 0
        /\ Has(cycleResult) =>
            /\ Val(cycleResult).executionResults = <<>>
            /\ Val(cycleResult).aiResponse \in Responses =>
                  Val(cycleResult).instructions =
                      filterInstructions(Parsed[Val(cycleResult).aiResponse])

\* a dry-run cycle has decoded and filtered an answer with two trades
C6_Witness ==
    /\ config.dryRun
    /\ Has(cycleResult)
    /\ Val(cycleResult).success
    /\ Val(cycleResult).aiResponse = RespTwoTrades
    /\ Len(Val(cycleResult).instructions) = 2
    /\ currentCycle >= 1

\* C7: the successful executions counted for the current day never exceed
\* maxDailyTrades, also when one answer yields several executable
\* instructions.
C7_DailyCountWithinCap == dailyTradeCount <= config.maxDailyTrades

\* is list strictly increasing
Increasing(list) ==
    \A a, b \in 1..Len(list) : a < b => list[a] < list[b]

\* C8: in a cycle that reaches the execute step the Trade Executor is invoked
\* at most once per surviving instruction and never for the instruction of
\* another cycle; executionResults holds one entry per instruction dealt with,
\* in the order of the filtered list, each naming its instruction, and the
\* cycle result holds exactly one entry per surviving instruction.
C8_OneResultPerInstruction ==
    /\ \A frame \in Frames :
        IF Executing(frame)
        THEN /\ frame.idx \in 1..Len(frame.validInstructions)
             /\ Len(frame.executionResults) = frame.idx - 1
             /\ \A k \in 1..Len(frame.executionResults) :
                    frame.executionResults[k].instruction = frame.validInstructions[k]
             /\ frame.assessed = [k \in 1..frame.idx |-> k]
             /\ Increasing(frame.executed)
             /\ \A e \in Elements(frame.executed) : e <= frame.idx
        ELSE /\ frame.executed = <<>>
             /\ frame.assessed = <<>>
             /\ frame.executionResults = <<>>
    /\ (Has(cycleResult) /\ Val(cycleResult).success /\ ~config.dryRun) =>
          /\ Len(Val(cycleResult).executionResults) = Len(Val(cycleResult).instructions)
          /\ \A k \in 1..Len(Val(cycleResult).executionResults) :
                Val(cycleResult).executionResults[k].instruction =
                    Val(cycleResult).instructions[k]

\* a cycle has returned two results, the first failed and the second not
C8_Witness ==
    /\ Has(cycleResult)
    /\ Len(Val(cycleResult).instructions) = 2
    /\ Successes(Val(cycleResult).executionResults) = <<FALSE, TRUE>>

\* assessRisk of the closure in frame settles without the Trade Executor
\* being called
RiskRefuses(frame) ==
    /\ frame.pc = "risk"
    /\ Stepped(frame)
    /\ ~Entered(ExecutorCalled(frame))

\* the frame the closure that takes this step goes on to
Successor == CHOOSE frame \in BagToSet(loops') : Entered(frame)

\* the ExecutionResult this step records for instruction idx of the closure
\* in frame
Recorded(frame) ==
    IF LastInstruction(frame)
    THEN Val(cycleResult').executionResults[frame.idx]
    ELSE Successor.executionResults[frame.idx]

\* C9: when the Risk Manager disallows an instruction (or throws), a failed
\* ExecutionResult with an error is recorded for it, nothing is counted and
\* the next instruction of the cycle is assessed; with two instructions, the
\* first placed by the Trade Executor and the second refused, the cycle's
\* executionResults are [success = true, success = false].
C9_RefusalRecordedAndIsolated ==
    [][\A frame \in Frames :
        RiskRefuses(frame) =>
            /\ ~Recorded(frame).success
            /\ Has(Recorded(frame).error)
            /\ totalExecutedTrades' = totalExecutedTrades
            /\ dailyTradeCount' = dailyTradeCount
            /\ ~LastInstruction(frame) =>
                  /\ Successor.pc = "risk"
                  /\ Successor.idx = frame.idx + 1
            /\ (/\ Len(frame.validInstructions) = 2
                /\ frame.idx = 2
                /\ frame.placed = <<1>>) =>
                  Successes(Val(cycleResult').executionResults) = <<TRUE, FALSE>>]_vars

\* C10: once the Trade Executor has returned success = true for an
\* instruction, its ExecutionResult is success = true and both counters are
\* incremented, whether or not sendMessage delivers the trade notification.
C10_NotifierFailureChangesNothing ==
    [][\A frame \in Frames :
        (frame.pc = "notify" /\ Stepped(frame)) =>
            /\ Recorded(frame).success
            /\ totalExecutedTrades' = totalExecutedTrades + 1
            /\ dailyTradeCount' = dailyTradeCount + 1]_vars

\* the closure in frame pushes an ExecutionResult in this step
Records(frame) ==
    /\ Executing(frame)
    /\ Stepped(frame)
    /\ IF LastInstruction(frame) THEN Has(cycleResult')
       ELSE Successor.idx = frame.idx + 1

\* 1 for an ExecutionResult with success = true, else 0
Gain(result) == IF result.success THEN 1 ELSE 0

\* C11: every ExecutionResult pushed with success = true adds exactly one to
\* totalExecutedTrades and to dailyTradeCount and one with success = false
\* changes neither; 0 <= dailyTradeCount <= totalExecutedTrades always, and
\* totalExecutedTrades never decreases.
C11_CountersFollowSuccesses ==
    /\ 0 <= dailyTradeCount
    /\ dailyTradeCount <= totalExecutedTrades
    /\ [][/\ totalExecutedTrades' >= totalExecutedTrades
          /\ 0 <= dailyTradeCount'
          /\ dailyTradeCount' <= totalExecutedTrades'
          /\ \A frame \in Frames :
                Records(frame) =>
                    /\ totalExecutedTrades' =
                          totalExecutedTrades + Gain(Recorded(frame))
                    /\ dailyTradeCount' = dailyTradeCount + Gain(Recorded(frame))]_vars

\* a cycle has returned a placed trade followed by a refused one, and one
\* trade is counted
C11_Witness ==
    /\ Has(cycleResult)
    /\ Successes(Val(cycleResult).executionResults) = <<TRUE, FALSE>>
    /\ totalExecutedTrades = 1
    /\ dailyTradeCount = 1

\* ------------------------------------------------------------------------
\* The orchestrator when stop() is never called and every timer fires and
\* every collaborator call returns or throws
\* ------------------------------------------------------------------------
NextUnstopped ==
    \/ Start /\ UNCHANGED call
    \/ Midnight
    \/ StartValidated
    \/ StartNotified
    \/ \E frame \in Frames : TimerFires(frame)
    \/ \E frame \in Frames : GatherSettles(frame)
    \/ \E frame \in Frames : ModelFails(frame)
    \/ \E frame \in Frames : ModelAnswers(frame)
    \/ \E frame \in Frames : RiskSettles(frame)
    \/ \E frame \in Frames : ExecSettles(frame)
    \/ \E frame \in Frames : NotifySettles(frame)

\* setTimeout callbacks run and awaited promises settle
LoopStep ==
    \E frame \in Frames :
        \/ TimerFires(frame)
        \/ GatherSettles(frame)
        \/ ModelFails(frame)
        \/ ModelAnswers(frame)
        \/ RiskSettles(frame)
        \/ ExecSettles(frame)
        \/ NotifySettles(frame)

Fairness == WF_vars(LoopStep)

LiveSpec == Init /\ [][NextUnstopped]_vars /\ Fairness

\* C12: with the orchestrator running and stop() never called, every cycle
\* that ends (returned, skipped or failed) leaves its loop closure with a
\* timer pending, and once a loop is started cycles keep beginning for as
\* long as the run goes on.
C12_LoopKeepsCycling ==
    /\ [][Has(cycleResult') =>
            /\ BagCardinality(loops') = BagCardinality(loops)
            /\ CopiesIn(NewFrame, loops') >= 1]_vars
    /\ (loops # EmptyBag) ~> (cyclesBegun = MaxCycles)

\* a cycle has failed and its loop closure waits for the next timer
C12_Witness ==
    /\ Has(cycleResult)
    /\ ~Val(cycleResult).success
    /\ isRunning
    /\ CopiesIn(NewFrame, loops) >= 1
    /\ cyclesBegun < MaxCycles

\* the result of a failed cycle: the error message and nothing else
FailedResult(result) ==
    /\ ~result.success
    /\ Has(result.error)
    /\ Val(result.error) # ""
    /\ result.instructions = <<>>
    /\ result.executionResults = <<>>

\* C13: a cycle whose account-info or positions read or whose Model Provider
\* call fails returns success = false with the error message and empty
\* instructions and executionResults, calls no Trade Executor and changes no
\* counter: the model is only invoked with both reads done, a cycle leaves
\* gatherMarketData and requestDecision either onwards or with the failed
\* result, and requestDecision is called at most once per cycle.
C13_FailedReadFailsCycle ==
    /\ [](\A frame \in Frames :
            /\ frame.modelCalls <= 1
            /\ frame.pc \in {"gather", "model"} => frame.executed = <<>>
            /\ frame.pc = "model" =>
                  /\ Has(frame.prompt)
                  /\ Val(frame.prompt).accountInfo
                  /\ Val(frame.prompt).currentPositions)
    /\ [][\A frame \in Frames :
            (frame.pc \in {"gather", "model"} /\ Stepped(frame)) =>
                \/ /\ Has(cycleResult')
                   /\ FailedResult(Val(cycleResult'))
                   /\ totalExecutedTrades' = totalExecutedTrades
                   /\ dailyTradeCount' = dailyTradeCount
                   /\ currentCycle' = currentCycle
                \/ /\ frame.pc = "gather"
                   /\ cycleResult' = Undef
                   /\ Successor.pc = "model"
                \/ /\ frame.pc = "model"
                   /\ IF Has(cycleResult')
                      THEN Val(cycleResult').aiResponse \in Responses
                      ELSE Successor.aiResponse \in Responses]_vars

\* a cycle has failed on the Model Provider after an earlier cycle traded
C13_Witness ==
    /\ Has(cycleResult)
    /\ Val(cycleResult) = createFailedCycleResult("provider error")
    /\ totalExecutedTrades >= 1

\* C14: start() on a service whose isRunning flag is true throws: the call
\* validates no connection, starts no trading loop and leaves isRunning and
\* every counter as they are; no start() call gets past the guard while the
\* flag is set.
C14_StartWhileRunningRejected ==
    [][isRunning =>
        /\ startCalls' = startCalls
        /\ starts'.validating <= starts.validating
        /\ Start =>
              UNCHANGED <<isRunning, starts, loops, currentCycle,
                          totalExecutedTrades, dailyTradeCount, lastResetDate,
                          cyclesBegun>>]_vars

\* the service runs one loop that has begun a cycle, and start() may be
\* called again
C14_Witness ==
    /\ isRunning
    /\ BagCardinality(loops) = 1
    /\ cyclesBegun >= 1
    /\ startCalls = 1
    /\ starts = [validating |-> 0, notifying |-> 0]

\* a service constructed by other code whose stop() calls are recorded
InitRecorded ==
    /\ config \in Configs
    /\ call = NoCall
    /\ ServiceFields
    /\ stopped = Some(FALSE)

StopSpec == InitRecorded /\ [][Next]_vars

\* C15: once stop() has cleared the flag of a running service, and until
\* start() is called again, no cycle begins: a timer that fires calls no
\* executeAITradingCycle, so no market data is read and no model is asked for
\* a new cycle; stop() on a service that is not running changes nothing.
C15_NoCycleAfterStop ==
    [][/\ Stopped => cyclesBegun' = cyclesBegun
       /\ (Stop /\ ~isRunning) =>
             UNCHANGED <<isRunning, starts, loops, currentCycle,
                         totalExecutedTrades, dailyTradeCount, lastResetDate,
                         cyclesBegun, stopped, call>>]_vars

\* an executeAITradingCycle call begins in this step
CycleBegins == cyclesBegun' = cyclesBegun + 1

\* C16: dailyTradeCount is set to 0 and lastResetDate to the current date
\* exactly when a cycle starts on a date other than lastResetDate: a cycle
\* that starts on the date of the last reset resets nothing, and no other
\* step lowers the counter or changes lastResetDate.
C16_ResetOncePerDateChange ==
    [][/\ (CycleBegins /\ today # lastResetDate) =>
             /\ dailyTradeCount' = 0
             /\ lastResetDate' = today
       /\ (CycleBegins /\ today = lastResetDate) =>
             /\ dailyTradeCount' = dailyTradeCount
             /\ lastResetDate' = lastResetDate
       /\ (dailyTradeCount' < dailyTradeCount \/ lastResetDate' # lastResetDate) =>
             /\ CycleBegins
             /\ today # lastResetDate]_vars

\* the counter has been reset on a new date after a trade was counted
C16_Witness ==
    /\ today >= 1
    /\ lastResetDate = today
    /\ dailyTradeCount = 0
    /\ totalExecutedTrades >= 1

\* ------------------------------------------------------------------------
\* handleAITradeCommand (commands/ai-trade.ts)
\* ------------------------------------------------------------------------
\* the --pairs texts a command line may give
PairTexts == {"", "BTCUSDT", "btcusdt, ethusdt"}

\* AITradeOptions: confidence in thousandths like every confidence, the
\* exposure in percent
CommandOptions ==
    [provider    : {"openai", "claude", "deepseek", "gemini"},
     pairs       : PairTexts,
     confidence  : {-1 * Scale, 0, 70 * Scale, 101 * Scale},
     maxExposure : {0, 50, 100, 101},
     maxTrades   : {MaxCap},
     dryRun      : BOOLEAN]

\* the environment configManager.loadFromEnvironment() reads
Environments ==
    [OPENAI_API_KEY    : {Undef, Some("sk")},
     ANTHROPIC_API_KEY : {Undef, Some("sk")},
     DEEPSEEK_API_KEY  : {Undef, Some("sk")},
     TELEGRAM_ENABLED  : {Undef, Some("true")}]

\* the key loadAIProviderConfig reads for provider, Undef for a provider of
\* the default case
apiKeyOf(provider, envConfig) ==
    CASE provider = "openai" -> envConfig.OPENAI_API_KEY
      [] provider = "claude" -> envConfig.ANTHROPIC_API_KEY
      [] provider = "deepseek" -> envConfig.DEEPSEEK_API_KEY
      [] OTHER -> Undef

\* loadAIProviderConfig: the provider configuration, Undef when it throws
loadAIProviderConfig(provider, envConfig) ==
    IF TruthyStr(apiKeyOf(provider, envConfig))
    THEN Some([apiKey |-> Val(apiKeyOf(provider, envConfig))])
    ELSE Undef

\* options.pairs.split(',').map(pair => pair.trim().toUpperCase())
tradingPairsOf(parts) == [k \in 1..Len(parts) |-> toUpperCase(trim(parts[k]))]

\* the AITradingConfig loadConfiguration builds
builtConfig(options, envConfig) ==
    [tradingPairs               |-> tradingPairsOf(split(options.pairs, ",")),
     maxDailyTrades             |-> options.maxTrades,
     maxPortfolioExposure       |-> options.maxExposure,
     minConfidenceThreshold     |-> options.confidence,
     technicalIndicatorsEnabled |-> TRUE,
     telegramEnabled            |-> envConfig.TELEGRAM_ENABLED = Some("true"),
     dryRun                     |-> options.dryRun]

\* the tests of validateConfiguration after the connection test: does none
\* of them throw
validConfiguration(c) ==
    /\ Len(c.tradingPairs) # 0
    /\ ~(c.maxPortfolioExposure <= 0 \/ c.maxPortfolioExposure > 100)
    /\ ~(c.minConfidenceThreshold < 0 \/ c.minConfidenceThreshold > 100 * Scale)

\* the orchestrator variables a step of the command before start() leaves
ServiceIdle ==
    UNCHANGED <<today, isRunning, currentCycle, totalExecutedTrades,
                dailyTradeCount, lastResetDate, starts, loops, cycleResult,
                cyclesBegun, startCalls, stopped>>

\* loadConfiguration up to the await of validateConnection: a provider whose
\* key is missing throws and the catch clause exits
LoadConfiguration ==
    /\ call.pc = "load"
    /\ call' = [call EXCEPT !.pc =
                    IF Has(loadAIProviderConfig(call.options.provider, call.env))
                    THEN "validate" ELSE "exit"]
    /\ UNCHANGED config
    /\ ServiceIdle

\* validateConnection settles and validateConfiguration goes on: a throw
\* exits, else the AITradingService is constructed with the configuration
ConnectionValidated ==
    /\ call.pc = "validate"
    /\ \E isValid \in BOOLEAN :
        IF isValid /\ validConfiguration(builtConfig(call.options, call.env))
        THEN /\ call' = [call EXCEPT !.pc = "start"]
             /\ config' = builtConfig(call.options, call.env)
        ELSE /\ call' = [call EXCEPT !.pc = "exit"]
             /\ UNCHANGED config
    /\ ServiceIdle

\* await aiTradingService.start()
CommandStarts ==
    /\ call.pc = "start"
    /\ call' = [call EXCEPT !.pc = "started"]
    /\ Start

\* the command line and the environment of one handleAITradeCommand call;
\* no AITradingService exists yet
InitCommand ==
    /\ call \in [pc : {"load"}, options : CommandOptions, env : Environments]
    /\ config = Undef
    /\ InitService

NextCommand ==
    \/ LoadConfiguration
    \/ ConnectionValidated
    \/ CommandStarts

CommandSpec == InitCommand /\ [][NextCommand]_vars

\* C17: when the key of the selected provider is missing, or
\* minConfidenceThreshold is outside [0, 100], or maxPortfolioExposure is
\* outside (0, 100], or the --pairs list is empty, handleAITradeCommand fails
\* before start() is called and no cycle runs.
C17_InvalidConfigurationNeverStarts ==
    (\/ ~TruthyStr(apiKeyOf(call.options.provider, call.env))
     \/ call.options.confidence < 0
     \/ call.options.confidence > 100 * Scale
     \/ call.options.maxExposure <= 0
     \/ call.options.maxExposure > 100
     \/ trim(call.options.pairs) = "")
    => /\ call.pc \notin {"start", "started"}
       /\ startCalls = 0
       /\ cyclesBegun = 0

\* the pairs of the SymbolData entries of a prompt
SymbolsOf(prompt) == [k \in 1..Len(prompt.symbols) |-> prompt.symbols[k].symbol]

\* C18: a ticker read that fails for a pair fails the whole cycle before the
\* model is invoked, so the model is only ever asked with every trading pair
\* in the market data; a klines read that fails leaves the pair in with the
\* neutral default indicators.
C18_TickerFailureFailsCycle ==
    \A frame \in Frames :
        frame.pc = "model" =>
            /\ SymbolsOf(Val(frame.prompt)) = config.tradingPairs
            /\ \A k \in 1..Len(Val(frame.prompt).symbols) :
                  Val(frame.prompt).symbols[k].technicalIndicators = NeutralIndicators

\* ------------------------------------------------------------------------
\* parseAIResponse on its own
\* ------------------------------------------------------------------------
\* the most TRADE_DECISION blocks of one answer
MaxBlocks == 2

BlockHoldBare == "TRADE_DECISION:\nAction: HOLD\n---\n"

BlockWaitEth == "TRADE_DECISION:\nAction: WAIT\nSymbol: ETHUSDT\nReason: no setup\n---\n"

BlockNoSymbol == "TRADE_DECISION:\nAction: BUY\nQuantity: 1\nConfidence: 80\n---\n"

ParserBlocks ==
    {BlockBuyBtc, BlockSellEth, BlockBadLeverage, BlockHold, BlockHoldBare,
     BlockWaitEth, BlockNoSymbol}

RECURSIVE Concat(_)
Concat(texts) == IF texts = <<>> THEN "" ELSE Head(texts) \o Concat(Tail(texts))

\* answers without a TRADE_DECISION: marker
ParserNotes ==
    {"Action: HOLD", "Markets are quiet.", "I would wait for now.",
     "Buy BTCUSDT now", "no trade", "No trade.", "There is no trade to take today.",
     "Volatility is high, so no trade:\nBTCUSDT is ranging.",
     "Action: BUY\nSymbol: BTCUSDT\nQuantity: 1\nAction: SELL\nSymbol: ETHUSDT\nQuantity: 2",
     "Sell ETHUSDT, or hold.", "Go long on btc.", "Short ETHUSDT here."}

BlockZeroLeverage ==
    "TRADE_DECISION:\nAction: BUY\nSymbol: BTCUSDT\nQuantity: 1\nLeverage: 0\nConfidence: 80\n---\n"

BlockCloseLeverage ==
    "TRADE_DECISION:\nAction: CLOSE\nSymbol: ETHUSDT\nLeverage: 100\nConfidence: 80\n---\n"

BlockOverConfident ==
    "TRADE_DECISION:\nAction: SELL\nSymbol: ETHUSDT\nQuantity: 2\nLeverage: 3\nConfidence: 150\n---\n"

BlockNegativeConfidence ==
    "TRADE_DECISION:\nAction: HOLD\nSymbol: BTCUSDT\nConfidence: -5\n---\n"

\* two blocks, the first ended by the marker of the second and the second
\* by the end of the text
AnswerUnterminated ==
    "TRADE_DECISION:\nAction: BUY\nSymbol: BTCUSDT\nQuantity: 1\nTRADE_DECISION:\nAction: SELL\nSymbol: ETHUSDT\nQuantity: 2"

\* two blocks with lines between the terminator of the first and the marker
\* of the second
AnswerWithAside ==
    "Plan:\n" \o BlockNoConfidence \o "Quantity: 9\nConfidence: 10\n" \o BlockSellEth

\* an answer that shows its block as a markdown code block
AnswerFenced == Fence \o "\n" \o BlockBuyBtc \o Fence \o "\n"

\* an answer in markdown: a heading, bold keys, an italic reason
AnswerMarkdown ==
    "## Decision\nTRADE_DECISION:\n**Action**: BUY\n**Symbol**: BTCUSDT\n**Quantity**: 0.5\nReason: *breakout*\n---\n"

BlockMarketBuy ==
    "TRADE_DECISION:\nAction: BUY\nSymbol: BTCUSDT\nEntry Price: MARKET\nConfidence: 80\n---\n"

BlockStopOnly ==
    "TRADE_DECISION:\nAction: SET_STOP_LOSS\nSymbol: BTCUSDT\nStop Loss: 60000\nConfidence: 80\n---\n"

BlockLowRatio ==
    "TRADE_DECISION:\nAction: BUY\nSymbol: BTCUSDT\nQuantity: 1\nStop Loss: 59000\nTake Profit: 60000\nRisk Reward: 1:1.2\nConfidence: 45\n---\n"

\* an answer under a divider line of seven # and an empty line
AnswerDivider == "#######\n\n" \o BlockBuyBtc

\* an answer whose first block names an action the parser does not know
AnswerUnknownAction ==
    "TRADE_DECISION:\nAction: SCALP\nSymbol: BTCUSDT\nQuantity: 1\n---\n" \o BlockSellEth

\* a HOLD block for the pair the model names as symbol
HoldOf(symbol) == "TRADE_DECISION:\nAction: HOLD\nSymbol: " \o symbol \o "\n---\n"

\* the ways the model may name a pair
SymbolValues ==
    {"btc", "FUTURES_ETHUSDT", "spot_bnbbusd", "BTCUSDT perp", "SPOT_FUTURES_BTC",
     "ethusdt"}

\* answers that put one field of one block at the edge of what validation
\* accepts, answers laid out in other ways than block after block, and
\* answers that name the pair in other ways
ParserCases ==
    {BlockZeroLeverage, BlockCloseLeverage, BlockOverConfident,
     BlockNegativeConfidence, AnswerUnterminated, AnswerWithAside,
     AnswerFenced, AnswerMarkdown, AnswerDivider, BlockMarketBuy,
     BlockStopOnly, BlockLowRatio, AnswerUnknownAction}
    \cup {HoldOf(symbol) : symbol \in SymbolValues}

\* answers of up to MaxBlocks blocks, answers without a block and the edge
\* cases
ParserTexts ==
    {Concat(blocks) : blocks \in UNION {[1..n -> ParserBlocks] : n \in 0..MaxBlocks}}
    \cup ParserNotes \cup ParserCases

\* the content handed to parseAIResponse: a text, or undefined
ParserInputs == {Some(text) : text \in ParserTexts} \cup {Undef}

\* the catch clause of parseAIResponse: the error is pushed to parseErrors and
\* the lists stay as they were when it was thrown
criticalResult(content, error) ==
    [instructions        |-> <<>>,
     rawResponse         |-> content,
     parseErrors         |-> <<"Critical parsing error: " \o error>>,
     validInstructions   |-> <<>>,
     invalidInstructions |-> <<>>]

\* parseAIResponse(content): response.replace of cleanResponse throws on a
\* content that is no string, inside the try block
parseContent(content) ==
    IF Has(content) THEN parseAIResponse(Val(content))
    ELSE criticalResult(content, "Cannot read properties of undefined (reading 'replace')")

\* const parseResult = this.parser.parseAIResponse(content)
Parse ==
    /\ call.pc = "parse"
    /\ call' = [pc |-> "parsed", content |-> call.content,
                result |-> parseContent(call.content)]
    /\ UNCHANGED config
    /\ ServiceIdle

InitParser ==
    /\ call \in [pc : {"parse"}, content : ParserInputs]
    /\ config = Undef
    /\ InitService

NextParser == Parse

ParserSpec == InitParser /\ [][NextParser]_vars

\* the blocks parseAIResponse extracts from a text
BlocksIn(text) == extractTradeBlocks(cleanResponse(text))

blockFields(block) == applyLines(EmptyInstruction, trimmedLines(split(block, "\n")))

\* the blocks of a text whose parsed action is HOLD
HoldBlocks(text) ==
    SelectSeq(BlocksIn(text), LAMBDA block : blockFields(block).action = Some("HOLD"))

HoldsOf(instructions) ==
    SelectSeq(instructions, LAMBDA instruction : instruction.action = Some("HOLD"))

\* one HOLD instruction per HOLD block, in order, with the stated defaults
HoldsAnswer(holds, blocks) ==
    /\ Len(holds) = Len(blocks)
    /\ \A k \in 1..Len(holds) :
          /\ TruthyStr(holds[k].reason)
          /\ ~Has(blockFields(blocks[k]).confidence)
                => holds[k].confidence = Some(50 * Scale)
          /\ ~Has(blockFields(blocks[k]).priority)
                => holds[k].priority = Some("LOW")

\* C20: every block whose parsed action is HOLD (WAIT included) yields exactly
\* one HOLD instruction with a non-empty reason, confidence 50 when the block
\* states none and priority LOW when it states none, whichever other fields
\* the block holds; the answer "Action: HOLD" yields one such instruction.
C20_HoldBlockYieldsHold ==
    (call.pc = "parsed" /\ Has(call.content) /\ BlocksIn(Val(call.content)) # <<>>) =>
        HoldsAnswer(HoldsOf(call.result.instructions), HoldBlocks(Val(call.content)))

NoBlocksError == "No TRADE_DECISION blocks found in AI response"

\* C21: for every response without a TRADE_DECISION: marker that contains the
\* phrase "no trade", parseAIResponse returns exactly one instruction, its
\* action is HOLD, and parseErrors holds the entry that reports that no
\* TRADE_DECISION blocks were found.
C21_NoTradeYieldsOneHold ==
    (/\ call.pc = "parsed"
     /\ Has(call.content)
     /\ ~includes(toUpperCase(Val(call.content)), Marker)
     /\ includes(toLowerCase(Val(call.content)), "no trade"))
    => /\ Len(call.result.instructions) = 1
       /\ call.result.instructions[1].action = Some("HOLD")
       /\ NoBlocksError \in Elements(call.result.parseErrors)

\* lo <= the number o holds <= hi (in units, not thousandths)
Within(o, lo, hi) == Val(o) >= lo * Scale /\ Val(o) <= hi * Scale

\* a confidence outside [0, 100], or a leverage that is present and outside
\* [1, 50]
OutOfRange(instruction) ==
    \/ Has(instruction.confidence) /\ ~Within(instruction.confidence, 0, 100)
    \/ Has(instruction.leverage) /\ ~Within(instruction.leverage, 1, 50)

\* C22: for every decoded instruction of any action, validateInstruction
\* reports an error whenever confidence is outside [0, 100] or leverage is
\* present and outside [1, 50], leverage 0 and leverage on a CLOSE included;
\* so no instruction of validInstructions is out of range.
C22_RangeErrorsReported ==
    call.pc = "parsed" =>
        /\ \A k \in 1..Len(call.result.instructions) :
              OutOfRange(call.result.instructions[k])
                  => ~validateInstruction(call.result.instructions[k]).isValid
        /\ \A k \in 1..Len(call.result.validInstructions) :
              ~OutOfRange(call.result.validInstructions[k])

\* validateInstruction returns no error for the instruction
NoErrors(instruction) == validateInstruction(instruction).errors = <<>>

\* the instructions of the invalidInstructions entries
Refused(result) ==
    [k \in 1..Len(result.invalidInstructions) |->
        result.invalidInstructions[k].instruction]

\* the result splits its instructions by the errors of validateInstruction,
\* keeping their order
SplitByErrors(result) ==
    /\ result.validInstructions = SelectSeq(result.instructions, NoErrors)
    /\ Refused(result) =
          SelectSeq(result.instructions, LAMBDA instruction : ~NoErrors(instruction))
    /\ Len(result.validInstructions) + Len(result.invalidInstructions)
          = Len(result.instructions)
    /\ Elements(result.validInstructions) \cap Elements(Refused(result)) = {}

\* C23: in every ParseResult each element of instructions is in exactly one of
\* validInstructions and invalidInstructions, in the same relative order; it
\* is in validInstructions if and only if validateInstruction returns no
\* errors for it; and the two lists together are as long as instructions.
C23_InstructionsSplitByValidation ==
    call.pc = "parsed" => SplitByErrors(call.result)

\* an answer of two blocks, one instruction valid and one refused
C23_Witness ==
    /\ call.pc = "parsed"
    /\ Len(call.result.instructions) = 2
    /\ Len(call.result.validInstructions) = 1
    /\ Len(call.result.invalidInstructions) = 1

\* the text of the block whose marker starts at position i of text: what
\* follows the marker up to the next marker, the next --- or the end
PieceEnds(text, from) ==
    {j \in from..Len(text) : StartsAtCI(text, j, Marker) \/ StartsAt(text, j, "---")}

PieceUpTo(text, from, ends) ==
    SubSeq(text, from, IF ends = {} THEN Len(text) ELSE Min(ends) - 1)

PieceAt(text, i) == PieceUpTo(text, i + Len(Marker), PieceEnds(text, i + Len(Marker)))

RECURSIVE PiecesFrom(_, _)
PiecesAfter(text, markers) ==
    IF markers = {} THEN <<>>
    ELSE <<PieceAt(text, Min(markers))>> \o PiecesFrom(text, Min(markers) + Len(Marker))

\* the blocks of text from position from on, in the order of their markers
PiecesFrom(text, from) ==
    PiecesAfter(text, {i \in from..Len(text) : StartsAtCI(text, i, Marker)})

\* the block carries a recognised action and a symbol
Carries(piece) ==
    Has(blockFields(piece).action) /\ TruthyStr(blockFields(piece).symbol)

\* one instruction per block, in block order, each with the fields of its
\* own block only
OnePerPiece(instructions, pieces) ==
    /\ Len(instructions) = Len(pieces)
    /\ \A k \in 1..Len(pieces) :
          Some(instructions[k]) = builtInstruction(blockFields(pieces[k]))

\* C24: a response of N blocks, each introduced by TRADE_DECISION: and each
\* carrying a recognised action and a symbol, yields exactly N instructions
\* in block order; a block ends at the next marker, at --- or at the end of
\* the text, and no field of one block shows in the instruction of another.
C24_OneInstructionPerBlock ==
    (/\ call.pc = "parsed"
     /\ Has(call.content)
     /\ PiecesFrom(Val(call.content), 1) # <<>>
     /\ \A piece \in Elements(PiecesFrom(Val(call.content), 1)) : Carries(piece))
    => OnePerPiece(call.result.instructions, PiecesFrom(Val(call.content), 1))

\* text ends with suffix
EndsWith(text, suffix) ==
    Len(text) >= Len(suffix) /\ StartsAt(text, Len(text) - Len(suffix) + 1, suffix)

\* an upper-case pair name with its quote asset last and no FUTURES or SPOT
\* before it, which parseSymbol leaves as it is
Normalized(symbol) ==
    /\ toUpperCase(symbol) = symbol
    /\ EndsWith(symbol, "USDT") \/ EndsWith(symbol, "BUSD")
    /\ ~StartsAt(symbol, 1, "FUTURE")
    /\ ~StartsAt(symbol, 1, "SPOT")
    /\ parseSymbol(symbol) = symbol

\* C25: for every symbol value parseSymbol returns an upper-case string that
\* ends with USDT or BUSD and has no leading FUTURES or SPOT; btc becomes
\* BTCUSDT and FUTURES_ETHUSDT becomes ETHUSDT; parseSymbol applied to its own
\* output returns the same string.
C25_SymbolNormalized ==
    (call.pc = "parsed" /\ call.result.parseErrors = <<>>) =>
        /\ \A k \in 1..Len(call.result.instructions) :
              Normalized(Val(call.result.instructions[k].symbol))
        /\ call.content = Some(HoldOf("btc"))
              => call.result.instructions[1].symbol = Some("BTCUSDT")
        /\ call.content = Some(HoldOf("FUTURES_ETHUSDT"))
              => call.result.instructions[1].symbol = Some("ETHUSDT")

\* two results hold the same instructions, the same split and the same parse
\* errors
SameDecoding(one, other) ==
    /\ one.instructions = other.instructions
    /\ one.validInstructions = other.validInstructions
    /\ one.invalidInstructions = other.invalidInstructions
    /\ one.parseErrors = other.parseErrors

\* C26: normalizing a normalized text changes nothing,
\* cleanResponse(cleanResponse(t)) = cleanResponse(t) for every raw text t, so
\* decoding cleanResponse(t) gives the instructions, the split and the parse
\* errors of decoding t.
C26_NormalizationIdempotent ==
    (call.pc = "parsed" /\ Has(call.content)) =>
        /\ cleanResponse(cleanResponse(Val(call.content)))
              = cleanResponse(Val(call.content))
        /\ SameDecoding(parseAIResponse(cleanResponse(Val(call.content))), call.result)

QuantityError == "Either quantity or price must be specified for trading actions"

\* the instruction states neither a quantity nor a price
NeitherGiven(instruction) == ~Has(instruction.quantity) /\ ~Has(instruction.price)

\* the quantity-or-price error is reported for the instruction exactly as the
\* rule says
QuantityRule(instruction) ==
    /\ (instruction.action \notin {Some("HOLD"), Some("CLOSE")} /\ NeitherGiven(instruction))
          => QuantityError \in Elements(validateInstruction(instruction).errors)
    /\ instruction.action \in {Some("HOLD"), Some("CLOSE")}
          => QuantityError \notin Elements(validateInstruction(instruction).errors)

\* C29: validateInstruction reports an error for every instruction whose
\* action is neither HOLD nor CLOSE and that has neither a quantity nor a
\* price, a BUY with Entry Price: MARKET and no Quantity for one, and reports
\* no such error for HOLD and CLOSE instructions.
C29_QuantityOrPriceRequired ==
    call.pc = "parsed" =>
        /\ \A k \in 1..Len(call.result.instructions) :
              QuantityRule(call.result.instructions[k])
        /\ call.content = Some(BlockMarketBuy) =>
              /\ Len(call.result.invalidInstructions) = 1
              /\ QuantityError \in Elements(call.result.invalidInstructions[1].errors)

\* the BUY at market price is decoded without quantity and price and refused
C29_Witness ==
    /\ call.pc = "parsed"
    /\ call.content = Some(BlockMarketBuy)
    /\ Len(call.result.instructions) = 1
    /\ NeitherGiven(call.result.instructions[1])
    /\ call.result.validInstructions = <<>>

\* the warnings validateInstruction may give
Warnings ==
    {"No reason provided for trading decision",
     "No stop loss specified - high risk",
     "No take profit specified - consider setting exit strategy",
     "Low confidence level - consider skipping this trade",
     "Risk/reward ratio is less than 1:1.5 - consider better opportunities"}

\* isValid says that there is no error, whatever the warnings
ValidIffNoErrors(instruction, result) ==
    /\ validateInstruction(instruction).isValid
          <=> (validateInstruction(instruction).errors = <<>>)
    /\ Elements(validateInstruction(instruction).warnings) \subseteq Warnings
    /\ validateInstruction(instruction).errors = <<>>
          => instruction \in Elements(result.validInstructions)

\* C30: validateInstruction is a pure check: the instruction it is given stays
\* as decoded, isValid is true exactly when the errors list is empty, and the
\* warnings (no reason, no stop loss or take profit on BUY and SELL,
\* confidence below 50, risk/reward below 1:1.5) never make an instruction
\* invalid or keep it out of validInstructions.
C30_WarningsNeverInvalidate ==
    (call.pc = "parsed" /\ Has(call.content)) =>
        /\ \A k \in 1..Len(call.result.instructions) :
              ValidIffNoErrors(call.result.instructions[k], call.result)
        /\ Elements(call.result.validInstructions) \cup Elements(Refused(call.result))
              = Elements(call.result.instructions)

\* a valid instruction with three warnings: no reason, a confidence below 50
\* and a risk/reward ratio below 1:1.5
C30_Witness ==
    /\ call.pc = "parsed"
    /\ call.content = Some(BlockLowRatio)
    /\ Len(call.result.validInstructions) = 1
    /\ Len(validateInstruction(call.result.validInstructions[1]).warnings) = 3

\* the instructions of the closure in frame handed to the Trade Executor whose
\* execution has not completed: no result of theirs is pushed yet
Unfinished(frame) ==
    {e \in Elements(frame.executed) : e > Len(frame.executionResults)}

\* the closure that takes this step was in a frame that satisfies from
SteppedFrom(from(_)) == \E frame \in Frames : Stepped(frame) /\ from(frame)

\* C27: within a cycle the instructions are executed strictly one after the
\* other: the Risk Manager assessment of an instruction completes before the
\* Trade Executor is called for it, the assessment of instruction i+1 starts
\* only after the execution of instruction i has completed and its result is
\* pushed, and no two executions of the cycle are under way at once.
C27_ExecutionSequential ==
    /\ [](\A frame \in Frames :
            /\ Cardinality(Unfinished(frame)) <= 1
            /\ Unfinished(frame) # {} <=> frame.pc \in {"exec", "notify"}
            /\ frame.pc \in {"exec", "notify"} => Unfinished(frame) = {frame.idx}
            /\ frame.pc = "risk" => Len(frame.executionResults) = frame.idx - 1)
    /\ [][\A next \in BagToSet(loops') :
            (next.pc \in {"risk", "exec"} /\ Entered(next)) =>
                /\ next.pc = "exec" =>
                      SteppedFrom(LAMBDA frame :
                          /\ frame.pc = "risk"
                          /\ frame.idx = next.idx
                          /\ frame.idx \in Elements(frame.assessed)
                          /\ next.executed = Append(frame.executed, frame.idx))
                /\ (next.pc = "risk" /\ next.idx > 1) =>
                      /\ SteppedFrom(LAMBDA frame :
                            /\ Executing(frame)
                            /\ frame.idx = next.idx - 1
                            /\ next.executed = frame.executed)
                      /\ Len(next.executionResults) = next.idx - 1]_vars

\* the Trade Executor is called for the second instruction of a cycle after
\* it has returned for the first
C27_Witness ==
    \E frame \in Frames :
        /\ frame.pc = "exec"
        /\ frame.idx = 2
        /\ frame.executed = <<1, 2>>
        /\ Len(frame.executionResults) = 1

\* the cycle of the closure in frame goes on in this step as it would in a
\* running service: gatherMarketData is followed by the model call, a pushed
\* result by the assessment of the next instruction
GoesOn(frame) ==
    /\ InFlight(Successor)
    /\ frame.pc = "gather" => Successor.pc = "model" /\ Successor.modelCalls = 1
    /\ Records(frame) => Successor.pc = "risk" /\ Successor.idx = frame.idx + 1

\* the cycle of the closure in frame returns in this step and the closure
\* sets no timer; a successful cycle is counted and has dealt with every
\* surviving instruction
ReturnsUnscheduled(frame) ==
    /\ loops' = Ended(frame)
    /\ Val(cycleResult').success => currentCycle' = currentCycle + 1
    /\ (Val(cycleResult').success /\ ~config.dryRun) =>
          Len(Val(cycleResult').executionResults) = Len(Val(cycleResult').instructions)

\* C28: stop() called while a cycle is in flight does not abort the cycle: it
\* still invokes the model if it has not yet, still hands every remaining
\* surviving instruction to the Risk Manager and the Trade Executor, still
\* updates the counters and returns its result; only the timer of the
\* following cycle is not set.
C28_StopLeavesCycleInFlight ==
    [][/\ Stop => /\ loops' = loops
                  /\ UNCHANGED <<currentCycle, totalExecutedTrades, dailyTradeCount>>
       /\ (~isRunning /\ loops' # loops) =>
            \A frame \in Frames :
                (InFlight(frame) /\ Stepped(frame)) =>
                    /\ IF Has(cycleResult') THEN ReturnsUnscheduled(frame)
                       ELSE GoesOn(frame)
                    /\ Records(frame) =>
                          /\ totalExecutedTrades'
                                = totalExecutedTrades + Gain(Recorded(frame))
                          /\ dailyTradeCount'
                                = dailyTradeCount + Gain(Recorded(frame))]_vars

\* a cycle has returned two execution results, the first of a placed trade,
\* in a stopped service, and no timer is left
C28_Witness ==
    /\ ~isRunning
    /\ Has(cycleResult)
    /\ Val(cycleResult).success
    /\ Len(Val(cycleResult).executionResults) = 2
    /\ Val(cycleResult).executionResults[1].success
    /\ totalExecutedTrades >= 1
    /\ loops = EmptyBag

\* the fields of a block hold no action or no symbol
Dropped(fields) == ~Has(fields.action) \/ ~TruthyStr(fields.symbol)

\* the fields the line loop of parseTradeBlock sets for each block
FieldsOf(blocks) == [k \in 1..Len(blocks) |-> blockFields(blocks[k])]

\* the instructions are those built from the given fields, in order
BuiltFrom(instructions, kept) ==
    /\ Len(instructions) = Len(kept)
    /\ \A k \in 1..Len(kept) : Some(instructions[k]) = builtInstruction(kept[k])

\* the instructions of the invalidInstructions entries come from instructions
RefusedAreDecoded(result) ==
    Elements(Refused(result)) \subseteq Elements(result.instructions)

\* a result for blocks with the given fields, one of which is dropped: the
\* instructions are those of the other blocks, in block order, and nothing
\* is reported
DroppedSilently(result, fields) ==
    (\E k \in 1..Len(fields) : Dropped(fields[k]))
    => /\ BuiltFrom(result.instructions,
                    SelectSeq(fields, LAMBDA kept : ~Dropped(kept)))
       /\ result.parseErrors = <<>>
       /\ RefusedAreDecoded(result)

\* C31: a block that after field parsing has no action (absent or not a
\* recognised action) or no symbol yields no instruction and adds no entry to
\* parseErrors or invalidInstructions, and the other blocks of the response
\* are decoded: the instructions are those of the blocks that carry both, in
\* block order.
C31_IncompleteBlockDropped ==
    (call.pc = "parsed" /\ Has(call.content))
    => DroppedSilently(call.result, FieldsOf(BlocksIn(Val(call.content))))

\* an answer whose first block names no known action and whose second block
\* is decoded
C31_Witness ==
    /\ call.pc = "parsed"
    /\ call.content = Some(AnswerUnknownAction)
    /\ Len(BlocksIn(AnswerUnknownAction)) = 2
    /\ Len(call.result.instructions) = 1
    /\ call.result.instructions[1].action = Some("SELL")

\* the lower-case text holds one of the words
HoldsWord(lower, words) == \E word \in words : includes(lower, word)

\* the text holds a hold-intent keyword
HoldIntent(text) == HoldsWord(toLowerCase(text), {"hold", "wait", "no trade"})

\* the text holds a directional keyword
Directional(text) == HoldsWord(toLowerCase(text), {"buy", "long", "sell", "short"})

\* the text holds a token of 2 to 10 capitals followed by USDT or BUSD
SymbolShaped(text) == \E i \in 1..Len(text) : symbolShapeAt(text, i) > 0

\* C32: for every response that contains no TRADE_DECISION: marker,
\* parseAIResponse records the parse error that no TRADE_DECISION blocks were
\* found and returns at most one instruction, the one of the keyword fallback;
\* a text with neither a hold-intent keyword nor a directional keyword
\* together with a symbol-shaped token gives no instruction.
C32_UnmarkedAnswerFallsBack ==
    (/\ call.pc = "parsed"
     /\ Has(call.content)
     /\ ~includes(toUpperCase(Val(call.content)), Marker))
    => /\ NoBlocksError \in Elements(call.result.parseErrors)
       /\ Len(call.result.instructions) <= 1
       /\ call.result.instructions = parseFallbackResponse(cleanResponse(Val(call.content)))
       /\ (/\ ~HoldIntent(Val(call.content))
           /\ ~(Directional(Val(call.content)) /\ SymbolShaped(Val(call.content))))
          => call.result.instructions = <<>>

\* the text without its code-fence delimiters, what they enclose kept
Unfenced(text) == removeAll(text, Fence)

\* C33: normalization removes only formatting markers and keeps the text they
\* enclose: a response whose TRADE_DECISION block is wrapped in a markdown
\* code fence is decoded to the same instructions as the same response
\* without the fence delimiters.
C33_FencedBlockDecoded ==
    (/\ call.pc = "parsed"
     /\ Has(call.content)
     /\ includes(Val(call.content), Fence))
    => /\ call.result.instructions = parseAIResponse(Unfenced(Val(call.content))).instructions
       /\ call.result.validInstructions
             = parseAIResponse(Unfenced(Val(call.content))).validInstructions

\* the keyword fallback is what decoded the text: no block was extracted
FellBack(text) == BlocksIn(text) = <<>>

\* the keyword fallback is what decoded the normalized text
FellBackOn(cleaned) == extractTradeBlocks(cleaned) = <<>>

\* one HOLD instruction with confidence 50
OneHold(instructions) ==
    /\ Len(instructions) = 1
    /\ instructions[1].action = Some("HOLD")
    /\ instructions[1].confidence = Some(50 * Scale)

\* one BUY or SELL instruction with confidence 30 and priority LOW
OneGuess(instructions) ==
    /\ Len(instructions) = 1
    /\ instructions[1].action \in {Some("BUY"), Some("SELL")}
    /\ instructions[1].confidence = Some(30 * Scale)
    /\ instructions[1].priority = Some("LOW")

\* a result of the keyword fallback for the normalized text
FallbackRefused(result, cleaned) ==
    FellBackOn(cleaned)
    => /\ HoldIntent(cleaned) => OneHold(result.instructions)
       /\ (~HoldIntent(cleaned) /\ Directional(cleaned) /\ SymbolShaped(cleaned))
             => OneGuess(result.instructions)
       /\ result.validInstructions = <<>>
       /\ Len(result.invalidInstructions) = Len(result.instructions)

\* C34: in the keyword fallback a hold-intent keyword (hold, wait, no trade)
\* takes precedence over any directional keyword and yields one HOLD
\* instruction with confidence 50; otherwise a directional keyword plus a
\* symbol-shaped token yields one BUY or SELL instruction with confidence 30
\* and priority LOW; and no instruction of the fallback is in
\* validInstructions, the list the filter before the Trade Executor walks.
C34_FallbackNeverExecuted ==
    (call.pc = "parsed" /\ Has(call.content))
    => FallbackRefused(call.result, cleanResponse(Val(call.content)))

\* the fallback reads a SELL with a pair and a hold keyword in one text and
\* answers HOLD, which validation refuses
C34_Witness ==
    /\ call.pc = "parsed"
    /\ call.content = Some("Sell ETHUSDT, or hold.")
    /\ FellBack(Val(call.content))
    /\ OneHold(call.result.instructions)
    /\ Len(call.result.invalidInstructions) = 1

\* a start() call leaves validateConnections in this step
ValidationSettles == starts'.validating < starts.validating

\* the call that leaves validateConnections goes on: it sets the flag and
\* sends the start notification or starts the trading loop
GoesOnToStart ==
    \/ starts'.notifying > starts.notifying
    \/ loops' # loops

\* C35: when two start() calls are issued on the same stopped service so that
\* the second is made while the first is still awaiting connection
\* validation, at most one of them succeeds and at most one trading loop is
\* started: a call whose validation settles when the service is already
\* running (another call has completed since it passed the guard) does not
\* go on to start a loop.
C35_ConcurrentStartsOneLoop ==
    [][(isRunning /\ starts.validating > 0 /\ ValidationSettles) => ~GoesOnToStart]_vars

\* validateConnections throws out of a start() call in this step
ThrowsAtValidation == ValidationSettles /\ ~GoesOnToStart

\* the start notification throws out of a start() call in this step
ThrowsAtNotification == starts'.notifying < starts.notifying /\ loops' = loops

\* C36: if start() throws (connection validation fails, or the start
\* notification cannot be sent) the orchestrator is left not running:
\* isRunning is false, no trading loop is scheduled by the call, and a later
\* start() is not rejected as already running; and whenever isRunning is true
\* with no start() call under way, a trading loop has been scheduled.
C36_FailedStartLeavesStopped ==
    /\ [][(ThrowsAtValidation \/ ThrowsAtNotification) =>
             (~isRunning' /\ loops' = loops /\ ~AlreadyRunning')]_vars
    /\ []((isRunning /\ starts.validating = 0 /\ starts.notifying = 0)
             => loops # EmptyBag)

\* an executeAITradingCycle call returns in this step
CycleReturns == Has(cycleResult')

\* C37: currentCycle never decreases and is incremented by exactly one per
\* orchestrator iteration that completes, whether the iteration ends as a
\* success, as a skipped cycle or as a failed cycle (each of which returns
\* one TradingCycleResult).
C37_CycleCountedOnEveryReturn ==
    [][/\ currentCycle' >= currentCycle
       /\ CycleReturns => currentCycle' = currentCycle + 1
       /\ ~CycleReturns => currentCycle' = currentCycle]_vars

\* the cycle that begins in this step returns the skipped result at once
SkippedAtOnce ==
    cycleResult' = Some(createSkippedCycleResult("Daily trade limit reached"))

\* the cycle that begins in this step goes on to gatherMarketData
GoesOnToGather ==
    /\ ~Has(cycleResult')
    /\ \E frame \in BagToSet(loops') :
          Entered(frame) /\ frame.pc = "gather" /\ frame.dataReads = 1

\* the closure whose market data is read in this step calls the Model Provider
CallsProvider ==
    \E frame \in BagToSet(loops') :
        Entered(frame) /\ frame.pc = "model" /\ frame.modelCalls = 1

\* a gatherMarketData call settles without an error in this step
GatherSucceeds ==
    /\ ~Has(cycleResult')
    /\ \E frame \in BagToSet(loops) :
          frame.pc = "gather" /\ CopiesIn(frame, loops') < CopiesIn(frame, loops)

MaxRate == 2

MaxTicks == 5

\* if (timeSinceReset > 60000): the window in milliseconds
Window == 60000

\* this.config.rateLimitPerMinute || 60
DefaultRate == 60

\* the clock moves in steps of half a window, so that a call can be made
\* exactly 60 seconds after the last reset and later
Tick == Window \div 2

\* a provider right after construction: requestCount = 0 and lastResetTime =
\* Date.now().  sent counts the HTTP requests of requestDecision since the
\* last reset, outcome tells what the last call did
Providers ==
    [pc : {"provider"}, rateLimitPerMinute : 1..MaxRate, now : {0},
     requestCount : {0}, lastResetTime : {0}, sent : {0}, outcome : {"none"}]

limitOf(rateLimitPerMinute) ==
    IF rateLimitPerMinute = 0 THEN DefaultRate ELSE rateLimitPerMinute

\* the first half of checkRateLimit: the counter is reset when more than a
\* window has passed since the last reset
afterReset(provider) ==
    IF provider.now - provider.lastResetTime > Window
    THEN [provider EXCEPT !.requestCount = 0, !.lastResetTime = provider.now,
                          !.sent = 0]
    ELSE provider

\* the test with <= written for <
underOrAtLimit(provider) ==
    provider.requestCount <= limitOf(provider.rateLimitPerMinute)

\* return this.requestCount < (this.config.rateLimitPerMinute || 60)
underLimit(provider) ==
    provider.requestCount < limitOf(provider.rateLimitPerMinute)

\* a request method once checkRateLimit has run: it throws 'Rate limit
\* exceeded', or it increments the counter and posts its request; own tells
\* whether the method is requestDecision
requestAfterCheck(provider, own) ==
    IF ~underLimit(provider)
    THEN [provider EXCEPT !.outcome = "rejected"]
    ELSE [provider EXCEPT !.requestCount = @ + 1,
                          !.sent = IF own THEN @ + 1 ELSE @,
                          !.outcome = IF own THEN "sent" ELSE "sent with system"]

\* requestDecision(prompt) up to its await of client.post; what the request
\* then does (an answer, an API error) changes no field of the provider
RequestDecision ==
    /\ call.pc = "provider"
    /\ call' = requestAfterCheck(afterReset(call), TRUE)
    /\ UNCHANGED config
    /\ ServiceIdle

\* requestDecisionWithSystem(systemPrompt, userPrompt), which shares the
\* counter
RequestDecisionWithSystem ==
    /\ call.pc = "provider"
    /\ call' = requestAfterCheck(afterReset(call), FALSE)
    /\ UNCHANGED config
    /\ ServiceIdle

\* half a window passes
ClockTicks ==
    /\ call.pc = "provider"
    /\ call.now < MaxTicks * Tick
    /\ call' = [call EXCEPT !.now = @ + Tick, !.outcome = "none"]
    /\ UNCHANGED config
    /\ ServiceIdle

InitProvider ==
    /\ call \in Providers
    /\ config = Undef
    /\ InitService

NextProvider ==
    \/ RequestDecision
    \/ RequestDecisionWithSystem
    \/ ClockTicks

ProviderSpec == InitProvider /\ [][NextProvider]_vars

\* a request method is called in this step (and is seen to change a field)
Called == call'.now = call.now

\* more than 60 seconds have passed since the last reset
WindowOver == call.now - call.lastResetTime > Window

\* C39: between two consecutive resets of the request counter at most
\* rateLimitPerMinute calls of requestDecision send an HTTP request; once
\* requestCount has reached rateLimitPerMinute a further call is rejected
\* with 'Rate limit exceeded' without sending a request and without
\* incrementing the counter; and the counter is reset to 0 only by a call
\* made more than 60 seconds after the last reset.
C39_RateLimitPerWindow ==
    /\ [](call.sent <= call.rateLimitPerMinute
            /\ call.requestCount <= call.rateLimitPerMinute)
    /\ [][/\ (/\ Called
              /\ call.requestCount >= call.rateLimitPerMinute
              /\ ~WindowOver)
             => /\ call'.outcome = "rejected"
                /\ call'.requestCount = call.requestCount
                /\ call'.sent = call.sent
          /\ (\/ call'.requestCount < call.requestCount
              \/ call'.lastResetTime # call.lastResetTime)
             => /\ Called
                /\ WindowOver
                /\ call'.lastResetTime = call.now]_vars

\* after a reset the provider has sent rateLimitPerMinute requests of
\* requestDecision and has rejected the next call
C39_Witness ==
    /\ call.pc = "provider"
    /\ call.lastResetTime > 0
    /\ call.sent = call.rateLimitPerMinute
    /\ call.requestCount = call.rateLimitPerMinute
    /\ call.outcome = "rejected"

\* ------------------------------------------------------------------------
\* SimpleDeepSeekTrader (SIMPLE_DEEPSEEK_TRADER.js)
\* ------------------------------------------------------------------------
\* the most tradingCycle calls of one run
MaxRuns == 3

\* the decisions DeepSeek may return: action, symbol, quantity_usdt and
\* risk_score
Decisions ==
    {[action |-> "BUY",  symbol |-> "BTCUSDT",  quantity_usdt |-> 100, risk_score |-> 45],
     [action |-> "BUY",  symbol |-> "BTCUSDT",  quantity_usdt |-> 100, risk_score |-> 90],
     [action |-> "BUY",  symbol |-> "ETHUSDT",  quantity_usdt |-> 300, risk_score |-> 45],
     [action |-> "BUY",  symbol |-> "DOGEUSDT", quantity_usdt |-> 100, risk_score |-> 45],
     [action |-> "SELL", symbol |-> "SOLUSDT",  quantity_usdt |-> 100, risk_score |-> 45],
     [action |-> "HOLD", symbol |-> "BTCUSDT",  quantity_usdt |-> 0,   risk_score |-> 10]}

\* the free USDT balances getAccountInfo may read
Balances == {50, 1000}

\* config.symbols
traderSymbols == {"BTCUSDT", "ETHUSDT", "SOLUSDT"}

\* validateRisk with the risk score test left out
validateRiskLoose(decision, availableBalance) ==
    /\ ~(decision.quantity_usdt > 200)
    /\ ~(decision.action = "BUY" /\ decision.quantity_usdt > availableBalance)
    /\ decision.symbol \in traderSymbols

\* validateRisk(decision, accountInfo).passed
validateRisk(decision, availableBalance) ==
    /\ ~(decision.risk_score > 80)
    /\ ~(decision.quantity_usdt > 200)
    /\ ~(decision.action = "BUY" /\ decision.quantity_usdt > availableBalance)
    /\ decision.symbol \in traderSymbols

\* a trader right after construction.  timers holds the ids of the intervals
\* that are set, cycles the tradingCycle calls in flight (each with the await
\* it is suspended at and its locals); begun counts the tradingCycle calls,
\* orders the marketBuy calls, halted tells that stop() was the last of the
\* start() and stop() calls; a tradeHistory entry keeps the balance its
\* decision was validated against
Traders ==
    [pc : {"trader"}, testMode : BOOLEAN, isRunning : {FALSE}, intervalId : {0},
     timers : {{}}, intervals : {0}, cycles : {EmptyBag}, begun : {0},
     tradeHistory : {<<>>}, orders : {0}, halted : {FALSE}]

\* a tradingCycle call at its first await, binance.prices() of getMarketData
NewCycle == [pc |-> "prices", availableBalance |-> 0, decision |-> Undef]

\* the trader once a tradingCycle call has begun
withCycle(trader) ==
    [trader EXCEPT !.cycles = @ (+) SetToBag({NewCycle}), !.begun = @ + 1]

\* the trader once the call in cycle has gone on to next
cycleMoved(trader, cycle, next) ==
    [trader EXCEPT !.cycles = (@ (-) SetToBag({cycle})) (+) SetToBag({next})]

\* the trader once the call in cycle has returned
cycleEnded(trader, cycle) ==
    [trader EXCEPT !.cycles = @ (-) SetToBag({cycle})]

\* the entry executeDecision or executeBuy pushes to tradeHistory
historyEntry(cycle, status) ==
    [decision |-> Val(cycle.decision), availableBalance |-> cycle.availableBalance,
     status |-> status]

\* the orchestrator variables and the configuration stay as constructed
TraderOnly == UNCHANGED config /\ ServiceIdle

\* start(): the flag is set, a new interval is set and its id kept, and the
\* first tradingCycle is called at once
TraderStart ==
    /\ call.pc = "trader"
    /\ call.intervals < MaxStarts
    /\ call.begun < MaxRuns
    /\ call' = withCycle([call EXCEPT !.isRunning = TRUE,
                                      !.intervals = @ + 1,
                                      !.intervalId = call.intervals + 1,
                                      !.timers = @ \cup {call.intervals + 1},
                                      !.halted = FALSE])
    /\ TraderOnly

\* stop(): the flag is cleared and the interval of intervalId is cleared
TraderStop ==
    /\ call.pc = "trader"
    /\ call' = [call EXCEPT !.isRunning = FALSE,
                            !.timers = @ \ {call.intervalId},
                            !.halted = TRUE]
    /\ TraderOnly

\* the callback of an interval that is set: if (this.isRunning) await
\* this.tradingCycle()
IntervalFires ==
    /\ call.pc = "trader"
    /\ call.timers # {}
    /\ call.begun < MaxRuns
    /\ call' = IF call.isRunning THEN withCycle(call) ELSE call
    /\ TraderOnly

\* an await of getMarketData or getAccountInfo settles: the call goes on to
\* the next await, or the error is caught by tradingCycle, which returns
ReadSettles(cycle) ==
    /\ call.pc = "trader"
    /\ cycle.pc \in {"prices", "prevDay", "account"}
    /\ \E ok \in BOOLEAN, balance \in Balances :
          call' = IF ~ok THEN cycleEnded(call, cycle)
                  ELSE CASE cycle.pc = "prices" ->
                                cycleMoved(call, cycle, [cycle EXCEPT !.pc = "prevDay"])
                         [] cycle.pc = "prevDay" ->
                                cycleMoved(call, cycle, [cycle EXCEPT !.pc = "account"])
                         [] OTHER ->
                                cycleMoved(call, cycle,
                                    [cycle EXCEPT !.pc = "decision",
                                                  !.availableBalance = balance])
    /\ TraderOnly

\* the call in cycle with the decision getDeepSeekDecision returned
decided(cycle, decision) == [cycle EXCEPT !.decision = Some(decision)]

\* executeDecision(decision) up to its first await, for the call in cycle
executeDecision(trader, cycle, decision) ==
    IF decision.action = "HOLD" THEN cycleEnded(trader, cycle)
    ELSE IF trader.testMode
    THEN [cycleEnded(trader, cycle) EXCEPT
             !.tradeHistory =
                 Append(@, historyEntry(decided(cycle, decision), "SIMULATED"))]
    ELSE IF decision.action = "BUY"
    THEN cycleMoved(trader, cycle,
                    [decided(cycle, decision) EXCEPT !.pc = "buyPrice"])
    ELSE cycleEnded(trader, cycle)

\* tradingCycle once getDeepSeekDecision has returned decision to the call
\* in cycle
afterDecision(trader, cycle, decision) ==
    IF ~validateRisk(decision, cycle.availableBalance)
    THEN cycleEnded(trader, cycle)
    ELSE executeDecision(trader, cycle, decision)

\* getDeepSeekDecision settles: the request or parseAIDecision throws, or
\* the decision is validated and executed
DecisionSettles(cycle) ==
    /\ call.pc = "trader"
    /\ cycle.pc = "decision"
    /\ \/ call' = cycleEnded(call, cycle)
       \/ \E decision \in Decisions :
             call' = afterDecision(call, cycle, decision)
    /\ TraderOnly

\* executeBuy: binance.prices(symbol) settles and marketBuy is called
BuyPriceSettles(cycle) ==
    /\ call.pc = "trader"
    /\ cycle.pc = "buyPrice"
    /\ \E ok \in BOOLEAN :
          call' = IF ~ok THEN cycleEnded(call, cycle)
                  ELSE [cycleMoved(call, cycle, [cycle EXCEPT !.pc = "marketBuy"])
                           EXCEPT !.orders = @ + 1]
    /\ TraderOnly

\* executeBuy: marketBuy settles and the trade is recorded
MarketBuySettles(cycle) ==
    /\ call.pc = "trader"
    /\ cycle.pc = "marketBuy"
    /\ \E ok \in BOOLEAN :
          call' = IF ~ok THEN cycleEnded(call, cycle)
                  ELSE [cycleEnded(call, cycle) EXCEPT
                           !.tradeHistory = Append(@, historyEntry(cycle, "EXECUTED"))]
    /\ TraderOnly

\* the tradingCycle calls in flight
Cycles == IF call.pc = "trader" THEN BagToSet(call.cycles) ELSE {}

InitTrader ==
    /\ call \in Traders
    /\ config = Undef
    /\ InitService

NextTrader ==
    \/ TraderStart
    \/ TraderStop
    \/ IntervalFires
    \/ \E cycle \in Cycles : ReadSettles(cycle)
    \/ \E cycle \in Cycles : DecisionSettles(cycle)
    \/ \E cycle \in Cycles : BuyPriceSettles(cycle)
    \/ \E cycle \in Cycles : MarketBuySettles(cycle)

TraderSpec == InitTrader /\ [][NextTrader]_vars

\* every decision in tradeHistory passed validateRisk
OnlyValidatedExecuted(trader) ==
    \A k \in 1..Len(trader.tradeHistory) :
        validateRisk(trader.tradeHistory[k].decision,
                     trader.tradeHistory[k].availableBalance)

\* C40: in SimpleDeepSeekTrader, after any sequence of start(), stop() and
\* interval firings at most one tradingCycle is in flight at a time, no
\* tradingCycle begins after stop(), and while config.testMode is true no
\* cycle places a real order (marketBuy is never called) nor executes a
\* decision that validateRisk rejected.
C40_TraderOneCycleTestMode ==
    /\ [](/\ BagCardinality(call.cycles) <= 1
          /\ call.testMode => (call.orders = 0 /\ OnlyValidatedExecuted(call)))
    /\ [][(call.halted /\ call'.halted) => call'.begun = call.begun]_vars

====
